---- MODULE Spec2Model ----
(***************************************************************************)
(* Model of the CIDR identity allocation and release coordination of the   *)
(* ipcache package (pkg/ipcache/cidr.go): AllocateCIDRs,                    *)
(* UpsertGeneratedIdentities, releaseCIDRIdentities,                        *)
(* ReleaseCIDRIdentitiesByCIDR and ReleaseCIDRIdentitiesByID, together with *)
(* the collaborators they call (identity allocator, ipcache store, metadata *)
(* table, deferred release queue), which are modelled from their documented *)
(* contract.  Spec has allocation, upsert and release by prefix; SpecHints  *)
(* has callers that pass previous numeric identities, SpecByID callers that *)
(* release by numeric identity, FairSpec the fairness of the scheduling,    *)
(* SpecUpsert used lists with an identity of another subsystem, SpecRelease *)
(* release batches with entries that do not parse and an allocator whose    *)
(* Release may fail, SpecIPs allocation by bare addresses, SpecAlloc        *)
(* allocation without a sink alone, SpecRollback allocation of longer       *)
(* batches with its rollback alone, SpecNode the parsing of a Kubernetes    *)
(* node (ParseNode of package k8s), and SpecWait the retrieval of the node  *)
(* at start-up (waitForNodeInformation and retrieveNodeInformation).  A     *)
(* Release of the rollback of AllocateCIDRs may fail in every one of them.  *)
(***************************************************************************)
EXTENDS Integers, Sequences, FiniteSets, TLC

VARIABLES
    idRef,        \* allocator: label set -> reference count (0 = not allocated)
    idNum,        \* allocator: label set -> numeric identity (InvalidIdentity = none)
    cache,        \* ipcache: prefix string -> [ID, Source]; DOMAIN = present entries
    meta,         \* metadata table: address string -> label set
    metaReaders,  \* callers holding ipc.metadata.RLock
    mainLock,     \* holder of ipc.mutex (write), NoHolder when free
    pc,           \* per caller: position in its current call
    call,         \* per caller: arguments and locals of its current call
    queue,        \* deferredPrefixRelease: pending prefix strings
    wpc,          \* release worker: position
    batch,        \* release worker: prefixes of the running transaction
    widx,         \* release worker: loop index into batch / toDelete
    toDelete,     \* release worker: toDelete slice of releaseCIDRIdentities
    lastRef,      \* prefixes for which Release reported the last reference (this transaction)
    relErr,       \* prefixes for which Release returned an error (this transaction)
    recoverCount, \* ipcache_errors_total{type=recover,error=unexpected}
    ncalls,       \* number of AllocateCIDRs calls started so far
    metaChanges,  \* number of metadata table updates so far
    rollbackErrs, \* number of references left by a failed Release of a rollback so far
    k8s           \* package k8s: the node being parsed (SpecNode) or retrieved (SpecWait)

vars == <<idRef, idNum, cache, meta, metaReaders, mainLock, pc, call, queue,
          wpc, batch, widx, toDelete, lastRef, relErr, recoverCount, ncalls,
          metaChanges, rollbackErrs, k8s>>

\* ---------------------------------------------------------------- bounds
NumCallers == 2
NumPrefixes == 2
MaxBatch == 2
MaxCalls == 2
MaxMetaChanges == 1
MaxUsedCopies == 2

\* ------------------------------------------------------------- constants
InvalidIdentity == 0

Callers == 1..NumCallers
Nets == 1..NumPrefixes

\* the addresses callers pass as bare IPs: a stands for 10.0.a.0
IPs == 1..NumPrefixes

\* the host-length network of each of these addresses
HostNets == {NumPrefixes + a : a \in IPs}

AllNets == Nets \cup HostNets

\* the third byte of the address of a network, and the length of its mask
AddrOf(p) == IF p \in HostNets THEN p - NumPrefixes ELSE p
MaskBits(p) == IF p \in HostNets THEN 32 ELSE 24
Nil == 0
NoHolder == -1
Worker == 0

\* ------------------------------------------------------- prefixes, labels
\* (*net.IPNet).String(): canonical prefix string of a network, "<nil>" for
\* a nil pointer
String(p) ==
    IF p = Nil THEN "<nil>"
    ELSE "10.0." \o ToString(AddrOf(p)) \o ".0/" \o ToString(MaskBits(p))

\* p.IP.String(): the address of the network, key of the metadata table
IPString(p) == "10.0." \o ToString(AddrOf(p)) \o ".0"

PrefixStrings == {String(p) : p \in Nets}
AllPrefixStrings == {String(p) : p \in AllNets}

\* net.ParseCIDR: the network a string denotes; ok = FALSE for a malformed one
ParseCIDR(s) ==
    IF \E p \in AllNets : String(p) = s
    THEN [ok |-> TRUE, net |-> CHOOSE p \in AllNets : String(p) = s]
    ELSE [ok |-> FALSE, net |-> Nil]

LabelSourceCIDR == "cidr"
LabelWorld == "reserved:world"
LabelKubeAPIServer == "reserved:kube-apiserver"

\* cidr.GetCIDRLabels: the CIDR label of the prefix plus reserved:world
GetCIDRLabels(p) == {LabelSourceCIDR \o ":" \o String(p), LabelWorld}

\* labels.Labels.MergeLabels
MergeLabels(lbls, from) == lbls \cup from

\* label sets the metadata table may hold for an address
MetaLabelSets == {{}, {LabelKubeAPIServer}}

\* ipc.metadata.getLocked
getLocked(key) == meta[key]

LabelSets == {MergeLabels(GetCIDRLabels(p), m) : p \in AllNets, m \in MetaLabelSets}

\* the labels of an identity that another subsystem holds: no CIDR label
ForeignLabels == {"k8s:app=web"}

\* the label sets the allocator knows
AllLabelSets == LabelSets \cup {ForeignLabels}

HasPrefix(s, prefix) ==
    Len(s) >= Len(prefix) /\ SubSeq(s, 1, Len(prefix)) = prefix

TrimPrefix(s, prefix) ==
    IF HasPrefix(s, prefix) THEN SubSeq(s, Len(prefix) + 1, Len(s)) ELSE s

\* mutant of cidrLabelToPrefix: the HasPrefix test of cidr.go:108 is dropped
cidrLabelToPrefixUnchecked(label) ==
    [prefix |-> TrimPrefix(label, LabelSourceCIDR \o ":"), ok |-> TRUE]

\* cidrLabelToPrefix
cidrLabelToPrefix(label) ==
    IF ~HasPrefix(label, LabelSourceCIDR)
    THEN [prefix |-> "", ok |-> FALSE]
    ELSE [prefix |-> TrimPrefix(label, LabelSourceCIDR \o ":"), ok |-> TRUE]

\* ------------------------------------------------------ identity allocator
MaxNID == 2 * NumPrefixes
NIDs == 1..MaxNID

\* the numeric identity of the identity held by another subsystem
ForeignNID == MaxNID + 1

UsedNIDs == {idNum[l] : l \in {x \in LabelSets : idRef[x] > 0}}
FreeNIDs == NIDs \ UsedNIDs

Min(S) == CHOOSE x \in S : \A y \in S : x <= y

\* numeric identity given to a new label set: the previous one when it is
\* still free, a fresh one otherwise
NextNID(oldNID) ==
    IF oldNID /= InvalidIdentity /\ oldNID \in FreeNIDs THEN oldNID ELSE Min(FreeNIDs)

\* IdentityAllocator.AllocateIdentity(ctx, lbls, false, oldNID), success case
AllocateIdentity(lbls, oldNID) ==
    LET isNew == idRef[lbls] = 0
        nid == IF isNew THEN NextNID(oldNID) ELSE idNum[lbls]
    IN [id |-> [ID |-> nid, Labels |-> lbls, CIDRLabel |-> ""],
        isNew |-> isNew,
        ref |-> [idRef EXCEPT ![lbls] = @ + 1],
        num |-> [idNum EXCEPT ![lbls] = nid]]

NoIdentity == [ID |-> InvalidIdentity, Labels |-> {}, CIDRLabel |-> ""]

\* the CIDR label an allocated identity carries (set by allocate, cidr.go:185-187)
CIDRLabelOf(lbls) ==
    IF \E l \in lbls : HasPrefix(l, LabelSourceCIDR)
    THEN CHOOSE l \in lbls : HasPrefix(l, LabelSourceCIDR)
    ELSE ""

\* IdentityAllocator.LookupIdentity(ctx, lbls): nil when not allocated
LookupIdentity(lbls) ==
    IF lbls \in LabelSets /\ idRef[lbls] > 0
    THEN [found |-> TRUE,
          id |-> [ID |-> idNum[lbls], Labels |-> lbls, CIDRLabel |-> CIDRLabelOf(lbls)]]
    ELSE [found |-> FALSE, id |-> NoIdentity]

\* IdentityAllocator.LookupIdentityByID(ctx, nid): nil when not allocated
LookupIdentityByID(nid) ==
    IF \E l \in AllLabelSets : idRef[l] > 0 /\ idNum[l] = nid
    THEN LET l == CHOOSE x \in AllLabelSets : idRef[x] > 0 /\ idNum[x] = nid
         IN [found |-> TRUE,
             id |-> [ID |-> nid, Labels |-> l, CIDRLabel |-> CIDRLabelOf(l)]]
    ELSE [found |-> FALSE, id |-> NoIdentity]

\* IdentityAllocator.Release(ctx, id, false) on allocator state <<ref, num>>
Release(ref, num, id) ==
    LET l == id.Labels
        held == ref[l] > 0
        released == held /\ ref[l] = 1
    IN [released |-> released,
        ref |-> IF held THEN [ref EXCEPT ![l] = @ - 1] ELSE ref,
        num |-> IF released THEN [num EXCEPT ![l] = InvalidIdentity] ELSE num]

\* IdentityAllocator.ReleaseSlice(ctx, nil, identities): Release of each one,
\* in order; an error of one Release does not stop the others and is not
\* returned to the caller.  fails holds the positions of ids whose Release
\* returns an error before the reference is dropped: that reference stays.  A
\* Release that returns its error after the reference is dropped leaves the
\* allocator as a successful one does.
RECURSIVE ReleaseSlice(_, _, _, _)
ReleaseSlice(ref, num, ids, fails) ==
    IF ids = <<>> THEN [ref |-> ref, num |-> num]
    ELSE LET r == IF 1 \in fails
                  THEN [ref |-> ref, num |-> num]
                  ELSE Release(ref, num, Head(ids))
         IN ReleaseSlice(r.ref, r.num, Tail(ids), {k - 1 : k \in fails \ {1}})

\* ------------------------------------------------------------ ipcache store
SourceGenerated == "generated"

MapPut(m, k, v) == [x \in DOMAIN m \cup {k} |-> IF x = k THEN v ELSE m[x]]
MapDel(m, k) == [x \in DOMAIN m \ {k} |-> m[x]]
EmptyMap == [x \in {} |-> 0]

\* ipc.Upsert(prefix, nil, 0, nil, Identity{ID, Source})
Upsert(c, prefix, entry) == MapPut(c, prefix, entry)

\* ipc.deleteLocked(prefix, source.Generated)
deleteLocked(c, prefix) == MapDel(c, prefix)

\* ipc.LookupByIPRLocked
LookupByIPRLocked(prefix) == prefix \in DOMAIN cache

\* ------------------------------------------------------------------ state
NoCall ==
    [prefixes |-> <<>>, oldNIDs |-> <<>>, sinkGiven |-> FALSE, upsert |-> FALSE,
     i |-> 1, usedIdentities |-> <<>>, allocatedIdentities |-> EmptyMap,
     newlyAllocatedIdentities |-> EmptyMap, identities |-> <<>>, err |-> FALSE,
     newMap |-> EmptyMap, newTodo |-> {}, usedList |-> <<>>, toUpsert |-> EmptyMap,
     upserted |-> {}, reportedNew |-> {}, baseRef |-> EmptyMap, baseCache |-> EmptyMap,
     missing |-> {}, recovering |-> "", recoveries |-> 0, ids |-> <<>>,
     resolved |-> <<>>, releaseErrs |-> {}]

\* ids and resolved are the identities parameter and the prefixes local of the
\* ReleaseCIDRIdentitiesByID call in progress, i its loop index.
\* newMap, newTodo, usedList, toUpsert and recovering are the parameters and
\* locals of the UpsertGeneratedIdentities call in progress (newTodo: keys of
\* newMap not yet upserted; recovering: the key of toUpsert the loop of
\* cidr.go:147 is at).
\* ghost fields of a call record: upserted (the <<prefix, entry>> pairs the call
\* has written to the cache), reportedNew (the prefixes whose allocation the
\* allocator reported as new), baseRef/baseCache (allocator reference counts
\* and cache content when the call took ipc.mutex), missing (the prefixes of
\* the used list that had no cache entry when the list was scanned), recoveries
\* (the number of entries the call has recovered), releaseErrs (the positions
\* of usedIdentities whose Release failed in the rollback and left the
\* reference)

\* the node state before any node is parsed
NoK8s == [AnnotateK8sNode |-> FALSE, k8sNode |-> <<>>, n |-> <<>>, parsed |-> FALSE]

InitIPCache ==
    /\ idRef = [l \in AllLabelSets |-> IF l = ForeignLabels THEN 1 ELSE 0]
    /\ idNum = [l \in AllLabelSets |->
                  IF l = ForeignLabels THEN ForeignNID ELSE InvalidIdentity]
    /\ cache = EmptyMap
    /\ meta = [k \in {IPString(p) : p \in Nets} |-> {}]
    /\ metaReaders = {}
    /\ mainLock = NoHolder
    /\ pc = [t \in Callers |-> "idle"]
    /\ call = [t \in Callers |-> NoCall]
    /\ queue = <<>>
    /\ wpc = "idle"
    /\ batch = <<>>
    /\ widx = 1
    /\ toDelete = <<>>
    /\ lastRef = {}
    /\ relErr = {}
    /\ recoverCount = 0
    /\ ncalls = 0
    /\ metaChanges = 0
    /\ rollbackErrs = 0

Init ==
    /\ InitIPCache
    /\ k8s = NoK8s

allocatorVars == <<idRef, idNum>>
workerVars == <<queue, wpc, batch, widx, toDelete, lastRef, relErr>>
envVars == <<meta, metaChanges, rollbackErrs>>

\* ------------------------------------------------------------ AllocateCIDRs
\* prefix sequences a caller may pass: up to MaxBatch entries, nil allowed
RECURSIVE SeqsUpTo(_, _)
SeqsUpTo(S, n) ==
    IF n = 0 THEN {<<>>}
    ELSE LET shorter == SeqsUpTo(S, n - 1)
         IN shorter \cup {Append(s, x) : s \in {y \in shorter : Len(y) = n - 1}, x \in S}

Batches == SeqsUpTo(Nets \cup {Nil}, MaxBatch) \ {<<>>}

\* previous numeric identities a caller may pass (nil slice = <<>>)
OldNIDChoices == {<<>>}

\* mutant of UpsertFlag: the call upserts also when it was given a sink
UpsertFlagAlways(sinkGiven) == TRUE

\* cidr.go:45-49: the call upserts itself only when it was given no sink
UpsertFlag(sinkGiven) == ~sinkGiven

\* cidr.go:37-51: entry, the upsert flag and the sink, then ipc.metadata.RLock()
CallAllocateCIDRs(t, prefixes, oldNIDs, sinkGiven) ==
    /\ pc[t] \in {"idle", "failed", "released"}
    /\ ncalls < MaxCalls
    /\ ncalls' = ncalls + 1
    /\ call' = [call EXCEPT ![t] =
                 [NoCall EXCEPT !.prefixes = prefixes, !.oldNIDs = oldNIDs,
                                !.sinkGiven = sinkGiven,
                                !.upsert = UpsertFlag(sinkGiven)]]
    /\ metaReaders' = metaReaders \cup {t}
    /\ pc' = [pc EXCEPT ![t] = "lock"]
    /\ UNCHANGED <<allocatorVars, cache, mainLock, workerVars, envVars, recoverCount,
                   k8s>>

\* ip.IPToPrefix: the host-length network of an address
IPToPrefix(a) == NumPrefixes + a

\* ip.GetCIDRPrefixesFromIPs
GetCIDRPrefixesFromIPs(ips) == [k \in 1..Len(ips) |-> IPToPrefix(ips[k])]

\* mutant of CallAllocateCIDRsForIPs: the addresses are passed on as the /24
\* networks that hold them
CallAllocateCIDRsForIPsWide(t, ips, sinkGiven) ==
    CallAllocateCIDRs(t, ips, <<>>, sinkGiven)

\* cidr.go:101-105: AllocateCIDRsForIPs delegates to AllocateCIDRs with the
\* host-length networks of the addresses and no previous identities
CallAllocateCIDRsForIPs(t, ips, sinkGiven) ==
    CallAllocateCIDRs(t, GetCIDRPrefixesFromIPs(ips), <<>>, sinkGiven)

\* cidr.go:52-53: ipc.Lock()
Lock(t) ==
    /\ pc[t] = "lock"
    /\ mainLock = NoHolder
    /\ mainLock' = t
    /\ call' = [call EXCEPT ![t].baseRef = idRef, ![t].baseCache = cache]
    /\ pc' = [pc EXCEPT ![t] = "loop"]
    /\ UNCHANGED <<allocatorVars, cache, metaReaders, workerVars, envVars,
                   recoverCount, ncalls, k8s>>

\* cidr.go:172-190: allocate, success case: the identity gets its CIDR label
allocate(p, lbls, oldNID) ==
    LET r == AllocateIdentity(lbls, oldNID)
    IN [r EXCEPT !.id.CIDRLabel =
            IF LabelWorld \in lbls THEN LabelSourceCIDR \o ":" \o String(p) ELSE ""]

\* cidr.go:59-60: the labels AllocateCIDRs allocates the prefix under
DeriveLabels(p) == MergeLabels(GetCIDRLabels(p), getLocked(IPString(p)))

\* mutant of OldNIDAt: the previous identities are read one index too far
OldNIDAtShifted(oldNIDs, i) ==
    IF Len(oldNIDs) >= i + 1 THEN oldNIDs[i + 1] ELSE InvalidIdentity

\* mutant of OldNIDAt: beyond the end of the slice the last previous identity
\* is taken
OldNIDAtLast(oldNIDs, i) ==
    IF Len(oldNIDs) >= i THEN oldNIDs[i]
    ELSE IF Len(oldNIDs) > 0 THEN oldNIDs[Len(oldNIDs)] ELSE InvalidIdentity

\* cidr.go:61-64: the previous numeric identity of index i
OldNIDAt(oldNIDs, i) == IF Len(oldNIDs) >= i THEN oldNIDs[i] ELSE InvalidIdentity

\* mutant of RecordNew: the isNew test of cidr.go:76 is dropped
RecordNewAlways(newly, prefixStr, id, isNew) == MapPut(newly, prefixStr, id)

\* cidr.go:76-78: the new-identity map after an allocation
RecordNew(newly, prefixStr, id, isNew) ==
    IF isNew THEN MapPut(newly, prefixStr, id) ELSE newly

\* mutant of LoopNil: the continue of cidr.go:56 is missing, and the nil
\* result of allocate (cidr.go:173-175) is recorded like an allocated identity
LoopNilRecorded(t) ==
    /\ pc[t] = "loop"
    /\ call[t].i <= Len(call[t].prefixes)
    /\ call[t].prefixes[call[t].i] = Nil
    /\ call' = [call EXCEPT
          ![t].i = @ + 1,
          ![t].usedIdentities = Append(@, NoIdentity),
          ![t].allocatedIdentities = MapPut(@, "<nil>", NoIdentity)]
    /\ UNCHANGED <<allocatorVars, cache, metaReaders, mainLock, pc, workerVars,
                   envVars, recoverCount, ncalls, k8s>>

\* cidr.go:54-57: a nil entry is skipped
LoopNil(t) ==
    /\ pc[t] = "loop"
    /\ call[t].i <= Len(call[t].prefixes)
    /\ call[t].prefixes[call[t].i] = Nil
    /\ call' = [call EXCEPT ![t].i = @ + 1]
    /\ UNCHANGED <<allocatorVars, cache, metaReaders, mainLock, pc, workerVars,
                   envVars, recoverCount, ncalls, k8s>>

\* cidr.go:59-65,73-78: one iteration whose allocation succeeds
LoopAllocate(t) ==
    /\ pc[t] = "loop"
    /\ call[t].i <= Len(call[t].prefixes)
    /\ call[t].prefixes[call[t].i] /= Nil
    /\ LET c == call[t]
           p == c.prefixes[c.i]
           r == allocate(p, DeriveLabels(p), OldNIDAt(c.oldNIDs, c.i))
           prefixStr == String(p)
       IN /\ idRef' = r.ref
          /\ idNum' = r.num
          /\ call' = [call EXCEPT
                ![t].i = @ + 1,
                ![t].usedIdentities = Append(@, r.id),
                ![t].allocatedIdentities = MapPut(@, prefixStr, r.id),
                ![t].newlyAllocatedIdentities = RecordNew(@, prefixStr, r.id, r.isNew),
                ![t].reportedNew = IF r.isNew THEN @ \cup {prefixStr} ELSE @]
    /\ UNCHANGED <<cache, metaReaders, mainLock, pc, workerVars, envVars,
                   recoverCount, ncalls, k8s>>

\* mutant of Rollback: the rollback misses the identity allocated last
RollbackSkipsLast(used, fails) ==
    ReleaseSlice(idRef, idNum, SubSeq(used, 1, Len(used) - 1), fails)

\* mutant of Rollback: every identity of the batch is released twice
RollbackTwice(used, fails) == ReleaseSlice(idRef, idNum, used \o used, fails)

\* cidr.go:67: the allocator state after the rollback of a failed batch; the
\* result of ReleaseSlice is not looked at, so the references whose Release
\* failed (fails) stay with the allocator
Rollback(used, fails) == ReleaseSlice(idRef, idNum, used, fails)

\* mutant of LoopAllocateError: the error path upserts the identities that
\* were new before it rolls back
LoopAllocateErrorUpserts(t) ==
    /\ pc[t] = "loop"
    /\ call[t].i <= Len(call[t].prefixes)
    /\ call[t].prefixes[call[t].i] /= Nil
    /\ LET r == ReleaseSlice(idRef, idNum, call[t].usedIdentities, {})
           new == call[t].newlyAllocatedIdentities
       IN /\ idRef' = r.ref
          /\ idNum' = r.num
          /\ cache' = [x \in DOMAIN cache \cup DOMAIN new |->
                         IF x \in DOMAIN new
                         THEN [ID |-> new[x].ID, Source |-> "generated"]
                         ELSE cache[x]]
    /\ pc' = [pc EXCEPT ![t] = "rolledback"]
    /\ UNCHANGED <<metaReaders, mainLock, call, workerVars, envVars,
                   recoverCount, ncalls, k8s>>

\* cidr.go:65-67: one iteration whose allocation fails: roll back.  Each
\* Release of the rollback may fail
LoopAllocateError(t) ==
    /\ pc[t] = "loop"
    /\ call[t].i <= Len(call[t].prefixes)
    /\ call[t].prefixes[call[t].i] /= Nil
    /\ \E fails \in SUBSET (1..Len(call[t].usedIdentities)) :
          LET r == Rollback(call[t].usedIdentities, fails)
          IN /\ idRef' = r.ref
             /\ idNum' = r.num
             /\ call' = [call EXCEPT ![t].releaseErrs = fails]
             /\ rollbackErrs' = rollbackErrs + Cardinality(fails)
    /\ pc' = [pc EXCEPT ![t] = "rolledback"]
    /\ UNCHANGED <<cache, metaReaders, mainLock, workerVars, meta, metaChanges,
                   recoverCount, ncalls, k8s>>

\* cidr.go:45-49,76-78: what the map the caller supplied as outputSink holds;
\* without a sink the map is a local of the call and is gone when it returns
SinkOf(c) == IF c.sinkGiven THEN c.newlyAllocatedIdentities ELSE EmptyMap

\* mutant of ErrorUnlock: the error path goes on without ipc.Unlock()
ErrorUnlockKeepsLock(t) ==
    /\ pc[t] = "rolledback"
    /\ pc' = [pc EXCEPT ![t] = "errunlocked"]
    /\ UNCHANGED <<allocatorVars, cache, metaReaders, mainLock, call, workerVars,
                   envVars, recoverCount, ncalls, k8s>>

\* cidr.go:68: ipc.Unlock() on the error path; the metadata read lock is
\* still held
ErrorUnlock(t) ==
    /\ pc[t] = "rolledback"
    /\ mainLock' = NoHolder
    /\ pc' = [pc EXCEPT ![t] = "errunlocked"]
    /\ UNCHANGED <<allocatorVars, cache, metaReaders, call, workerVars, envVars,
                   recoverCount, ncalls, k8s>>

\* cidr.go:69-70: ipc.metadata.RUnlock() and return (nil, err)
ReturnError(t) ==
    /\ pc[t] = "errunlocked"
    /\ metaReaders' = metaReaders \ {t}
    /\ call' = [call EXCEPT ![t] =
                 [NoCall EXCEPT !.err = TRUE,
                                !.sinkGiven = call[t].sinkGiven,
                                !.newlyAllocatedIdentities = SinkOf(call[t])]]
    /\ pc' = [pc EXCEPT ![t] = "failed"]
    /\ UNCHANGED <<allocatorVars, cache, mainLock, workerVars, envVars,
                   recoverCount, ncalls, k8s>>

\* position after the new map has been handled (cidr.go:120-128)
AfterNew(todo, usedList) ==
    IF todo /= {} THEN "upsertNew"
    ELSE IF Len(usedList) = 0 THEN "holding" ELSE "scan"

\* mutant of MapToUpsert: every allocated identity is upserted, new or not
MapToUpsertAll(c) == c.allocatedIdentities

\* cidr.go:86: the map AllocateCIDRs hands to UpsertGeneratedIdentities
MapToUpsert(c) == c.newlyAllocatedIdentities

\* the orders in which a range loop may visit the keys of a map
Orderings(S) ==
    {o \in [1..Cardinality(S) -> S] :
        \A j, k \in 1..Cardinality(S) : j /= k => o[j] /= o[k]}

\* mutant of Identities: the loop of cidr.go:90 stops one entry short
IdentitiesShort(allocated) ==
    {[k \in 1..(Len(o) - 1) |-> allocated[o[k]]] : o \in Orderings(DOMAIN allocated)}

\* cidr.go:89-92: the returned slices, one identity per key of
\* allocatedIdentities, in the order the map is ranged over
Identities(allocated) ==
    {[k \in 1..Len(o) |-> allocated[o[k]]] : o \in Orderings(DOMAIN allocated)}

\* cidr.go:80: end of the loop: ipc.Unlock(); the metadata read lock is
\* still held
LoopEnd(t) ==
    /\ pc[t] = "loop"
    /\ call[t].i > Len(call[t].prefixes)
    /\ mainLock' = NoHolder
    /\ pc' = [pc EXCEPT ![t] = "unlocked"]
    /\ UNCHANGED <<allocatorVars, cache, metaReaders, call, workerVars, envVars,
                   recoverCount, ncalls, k8s>>

\* mutant of RUnlock: the success path goes on to the upsert without
\* ipc.metadata.RUnlock()
RUnlockSkipped(t) ==
    /\ pc[t] = "unlocked"
    /\ LET c == call[t]
           new == IF c.upsert THEN MapToUpsert(c) ELSE EmptyMap
           todo == DOMAIN new
       IN /\ \E identities \in Identities(c.allocatedIdentities) :
                call' = [call EXCEPT ![t].oldNIDs = <<>>,
                                     ![t].newMap = new,
                                     ![t].newTodo = todo,
                                     ![t].usedList = <<>>,
                                     ![t].baseRef = EmptyMap,
                                     ![t].baseCache = EmptyMap,
                                     ![t].identities = identities]
          /\ pc' = [pc EXCEPT ![t] =
                      IF c.upsert THEN AfterNew(todo, <<>>) ELSE "returned"]
    /\ UNCHANGED <<allocatorVars, cache, metaReaders, mainLock, workerVars,
                   envVars, recoverCount, ncalls, k8s>>

\* cidr.go:81-93: ipc.metadata.RUnlock(), then either upsert the new
\* identities (no sink given) or return to the caller
RUnlock(t) ==
    /\ pc[t] = "unlocked"
    /\ metaReaders' = metaReaders \ {t}
    /\ LET c == call[t]
           new == IF c.upsert THEN MapToUpsert(c) ELSE EmptyMap
           todo == DOMAIN new
       IN /\ \E identities \in Identities(c.allocatedIdentities) :
                call' = [call EXCEPT ![t].oldNIDs = <<>>,
                                     ![t].newMap = new,
                                     ![t].newTodo = todo,
                                     ![t].usedList = <<>>,
                                     ![t].baseRef = EmptyMap,
                                     ![t].baseCache = EmptyMap,
                                     ![t].identities = identities]
          /\ pc' = [pc EXCEPT ![t] =
                      IF c.upsert THEN AfterNew(todo, <<>>) ELSE "returned"]
    /\ UNCHANGED <<allocatorVars, cache, mainLock, workerVars, envVars,
                   recoverCount, ncalls, k8s>>

\* ------------------------------------------------ UpsertGeneratedIdentities
GeneratedEntry(id) == [ID |-> id.ID, Source |-> SourceGenerated]

\* a slice that holds the identities of ids, the whole of it copies times
RECURSIVE Repeat(_, _)
Repeat(ids, copies) ==
    IF copies = 0 THEN <<>> ELSE ids \o Repeat(ids, copies - 1)

\* the caller that was handed a sink upserts it (cidr.go:27-29), with a used
\* list that holds the identities it was returned, each of them copies times
CallUpsertGeneratedIdentities(t, copies) ==
    /\ pc[t] = "returned"
    /\ LET c == call[t]
           new == c.newlyAllocatedIdentities
           todo == DOMAIN new
           usedList == Repeat(c.identities, copies)
       IN /\ call' = [call EXCEPT ![t].newMap = new, ![t].newTodo = todo,
                                  ![t].usedList = usedList]
          /\ pc' = [pc EXCEPT ![t] = AfterNew(todo, usedList)]
    /\ UNCHANGED <<allocatorVars, cache, metaReaders, mainLock, workerVars,
                   envVars, recoverCount, ncalls, k8s>>

\* mutant of UpsertNew: the entry of the prefix is deleted, not upserted
UpsertNewDeletes(t) ==
    /\ pc[t] = "upsertNew"
    /\ mainLock = NoHolder
    /\ \E prefixString \in call[t].newTodo :
         LET c == call[t]
             todo == c.newTodo \ {prefixString}
         IN /\ cache' = deleteLocked(cache, prefixString)
            /\ call' = [call EXCEPT ![t].newTodo = todo]
            /\ pc' = [pc EXCEPT ![t] = AfterNew(todo, c.usedList)]
    /\ UNCHANGED <<allocatorVars, metaReaders, mainLock, workerVars, envVars,
                   recoverCount, ncalls, k8s>>

\* cidr.go:120-128: one ipc.Upsert of the new map (Upsert takes ipc.mutex)
UpsertNew(t) ==
    /\ pc[t] = "upsertNew"
    /\ mainLock = NoHolder
    /\ \E prefixString \in call[t].newTodo :
         LET c == call[t]
             todo == c.newTodo \ {prefixString}
             entry == GeneratedEntry(c.newMap[prefixString])
         IN /\ cache' = Upsert(cache, prefixString, entry)
            /\ call' = [call EXCEPT ![t].newTodo = todo,
                                    ![t].upserted = @ \cup {<<prefixString, entry>>}]
            /\ pc' = [pc EXCEPT ![t] = AfterNew(todo, c.usedList)]
    /\ UNCHANGED <<allocatorVars, metaReaders, mainLock, workerVars, envVars,
                   recoverCount, ncalls, k8s>>

\* mutant of ToUpsert: the lookup of cidr.go:140 is dropped, every CIDR
\* identity of the used list is taken
ToUpsertAll(usedList, acc) ==
    LET oks == {k \in 1..Len(usedList) : cidrLabelToPrefix(usedList[k].CIDRLabel).ok}
        pre(k) == cidrLabelToPrefix(usedList[k].CIDRLabel).prefix
        ps == {pre(k) : k \in oks}
        last(x) == CHOOSE k \in oks : pre(k) = x /\ \A j \in oks : pre(j) = x => j <= k
    IN [x \in DOMAIN acc \cup ps |-> IF x \in ps THEN usedList[last(x)] ELSE acc[x]]

\* mutant of ToUpsert: the ok test of cidr.go:136 is dropped, an identity
\* without CIDR label is kept under the prefix cidrLabelToPrefix returns
RECURSIVE ToUpsertIgnoresOk(_, _)
ToUpsertIgnoresOk(usedList, acc) ==
    IF usedList = <<>> THEN acc
    ELSE LET id == Head(usedList)
             r == cidrLabelToPrefix(id.CIDRLabel)
         IN IF LookupByIPRLocked(r.prefix)
            THEN ToUpsertIgnoresOk(Tail(usedList), acc)
            ELSE ToUpsertIgnoresOk(Tail(usedList), MapPut(acc, r.prefix, id))

\* cidr.go:130-146: the used identities whose prefix has no cache entry
RECURSIVE ToUpsert(_, _)
ToUpsert(usedList, acc) ==
    IF usedList = <<>> THEN acc
    ELSE LET id == Head(usedList)
             r == cidrLabelToPrefix(id.CIDRLabel)
         IN IF ~r.ok \/ LookupByIPRLocked(r.prefix)
            THEN ToUpsert(Tail(usedList), acc)
            ELSE ToUpsert(Tail(usedList), MapPut(acc, r.prefix, id))

\* the prefixes of the CIDR identities of a used list that the cache has no
\* entry for
MissingPrefixes(usedList) ==
    {TrimPrefix(usedList[k].CIDRLabel, LabelSourceCIDR \o ":") :
        k \in {j \in 1..Len(usedList) : HasPrefix(usedList[j].CIDRLabel, LabelSourceCIDR)}}
    \ DOMAIN cache

\* cidr.go:130-146: the scan of the used list under ipc.mutex.RLock
UpsertScan(t) ==
    /\ pc[t] = "scan"
    /\ mainLock = NoHolder
    /\ LET m == ToUpsert(call[t].usedList, EmptyMap)
       IN /\ call' = [call EXCEPT ![t].toUpsert = m,
                                  ![t].usedList = IF DOMAIN m = {} THEN <<>> ELSE @,
                                  ![t].missing = MissingPrefixes(call[t].usedList)]
          /\ pc' = [pc EXCEPT ![t] = IF DOMAIN m = {} THEN "holding" ELSE "recover"]
    /\ UNCHANGED <<allocatorVars, cache, metaReaders, mainLock, workerVars,
                   envVars, recoverCount, ncalls, k8s>>

\* the number of entries of a used list that carry the CIDR label of prefix
Uses(usedList, prefix) ==
    Cardinality({k \in 1..Len(usedList) :
                    usedList[k].CIDRLabel = LabelSourceCIDR \o ":" \o prefix})

\* mutant of RecoverCount: the counter is incremented for every entry of the
\* used list that has the prefix, not once per prefix
RecoverCountUses(t) ==
    /\ pc[t] = "recover"
    /\ \E prefix \in DOMAIN call[t].toUpsert :
         /\ recoverCount' = recoverCount + Uses(call[t].usedList, prefix)
         /\ call' = [call EXCEPT ![t].recovering = prefix]
    /\ pc' = [pc EXCEPT ![t] = "recoverUpsert"]
    /\ UNCHANGED <<allocatorVars, cache, metaReaders, mainLock, workerVars,
                   envVars, ncalls, k8s>>

\* cidr.go:147-150: the range loop takes an entry of toUpsert and increments
\* the counter; no lock is involved
RecoverCount(t) ==
    /\ pc[t] = "recover"
    /\ \E prefix \in DOMAIN call[t].toUpsert :
         /\ recoverCount' = recoverCount + 1
         /\ call' = [call EXCEPT ![t].recovering = prefix]
    /\ pc' = [pc EXCEPT ![t] = "recoverUpsert"]
    /\ UNCHANGED <<allocatorVars, cache, metaReaders, mainLock, workerVars,
                   envVars, ncalls, k8s>>

\* cidr.go:151-154: ipc.Upsert of the entry (Upsert takes ipc.mutex)
UpsertRecover(t) ==
    /\ pc[t] = "recoverUpsert"
    /\ mainLock = NoHolder
    /\ LET prefix == call[t].recovering
           m == MapDel(call[t].toUpsert, prefix)
           entry == GeneratedEntry(call[t].toUpsert[prefix])
       IN /\ cache' = Upsert(cache, prefix, entry)
          /\ call' = [call EXCEPT ![t].toUpsert = m,
                                  ![t].usedList = IF DOMAIN m = {} THEN <<>> ELSE @,
                                  ![t].recovering = "",
                                  ![t].recoveries = @ + 1,
                                  ![t].upserted = @ \cup {<<prefix, entry>>}]
          /\ pc' = [pc EXCEPT ![t] = IF DOMAIN m = {} THEN "holding" ELSE "recover"]
    /\ UNCHANGED <<allocatorVars, metaReaders, mainLock, workerVars, envVars,
                   recoverCount, ncalls, k8s>>

\* ------------------------------------------------- deferred release queue
\* mutant of enqueue: every enqueued prefix is appended, pending or not
enqueueAll(q, prefixes) == q \o prefixes

\* deferredPrefixRelease.enqueue: pending prefixes are kept once each
RECURSIVE enqueue(_, _)
enqueue(q, prefixes) ==
    IF prefixes = <<>> THEN q
    ELSE LET x == Head(prefixes)
         IN IF \E k \in 1..Len(q) : q[k] = x
            THEN enqueue(q, Tail(prefixes))
            ELSE enqueue(Append(q, x), Tail(prefixes))

\* the networks a caller releases: the distinct non-nil prefixes it allocated
RECURSIVE NetsOf(_)
NetsOf(prefixes) ==
    IF prefixes = <<>> THEN <<>>
    ELSE LET rest == NetsOf(Tail(prefixes))
             p == Head(prefixes)
         IN IF p = Nil \/ \E k \in 1..Len(rest) : rest[k] = p
            THEN rest ELSE <<p>> \o rest

\* mutant of ReleaseCIDRIdentitiesByCIDR: the identities are released in the
\* call itself, not handed to the queue
ReleaseCIDRIdentitiesByCIDRSync(t) ==
    /\ pc[t] = "holding"
    /\ mainLock = NoHolder
    /\ LET r == ReleaseSlice(idRef, idNum, call[t].identities, {})
       IN idRef' = r.ref /\ idNum' = r.num
    /\ pc' = [pc EXCEPT ![t] = "released"]
    /\ call' = [call EXCEPT ![t] =
                 [NoCall EXCEPT !.prefixes = call[t].prefixes,
                                !.sinkGiven = call[t].sinkGiven]]
    /\ UNCHANGED <<cache, metaReaders, mainLock, workerVars, envVars,
                   recoverCount, ncalls, k8s>>

\* cidr.go:245-251
ReleaseCIDRIdentitiesByCIDR(t) ==
    /\ pc[t] = "holding"
    /\ LET nets == NetsOf(call[t].prefixes)
           prefixes == [k \in 1..Len(nets) |-> String(nets[k])]
       IN queue' = enqueue(queue, prefixes)
    /\ pc' = [pc EXCEPT ![t] = "released"]
    /\ call' = [call EXCEPT ![t] =
                 [NoCall EXCEPT !.prefixes = call[t].prefixes,
                                !.sinkGiven = call[t].sinkGiven]]
    /\ UNCHANGED <<allocatorVars, cache, metaReaders, mainLock, wpc, batch, widx,
                   toDelete, lastRef, relErr, envVars, recoverCount, ncalls,
                   k8s>>

\* cidr.go:245-251 called with the slice the caller passed to AllocateCIDRs,
\* nil entries and repeated networks included
ReleaseCIDRIdentitiesByCIDRSlice(t) ==
    /\ pc[t] = "holding"
    /\ LET nets == call[t].prefixes
           prefixes == [k \in 1..Len(nets) |-> String(nets[k])]
       IN queue' = enqueue(queue, prefixes)
    /\ pc' = [pc EXCEPT ![t] = "released"]
    /\ call' = [call EXCEPT ![t] =
                 [NoCall EXCEPT !.prefixes = call[t].prefixes,
                                !.sinkGiven = call[t].sinkGiven]]
    /\ UNCHANGED <<allocatorVars, cache, metaReaders, mainLock, wpc, batch, widx,
                   toDelete, lastRef, relErr, envVars, recoverCount, ncalls,
                   k8s>>

\* the numeric identities a caller releases: those of the identities it was
\* returned, alone or after the identity of another subsystem
IDChoices(c) ==
    LET own == [k \in 1..Len(c.identities) |-> c.identities[k].ID]
    IN {own, <<ForeignNID>> \o own}

\* cidr.go:255-256: entry of ReleaseCIDRIdentitiesByID
CallReleaseCIDRIdentitiesByID(t, identities) ==
    /\ pc[t] = "holding"
    /\ pc' = [pc EXCEPT ![t] = "resolve"]
    /\ call' = [call EXCEPT ![t] =
                 [NoCall EXCEPT !.prefixes = call[t].prefixes,
                                !.sinkGiven = call[t].sinkGiven,
                                !.ids = identities]]
    /\ UNCHANGED <<allocatorVars, cache, metaReaders, mainLock, workerVars,
                   envVars, recoverCount, ncalls, k8s>>

\* mutant of AppendResolved: the CIDR label is appended as it is, source and
\* colon included
AppendResolvedLabel(prefixes, nid) ==
    LET found == LookupIdentityByID(nid)
        r == cidrLabelToPrefix(found.id.CIDRLabel)
    IN IF found.found /\ r.ok THEN Append(prefixes, found.id.CIDRLabel) ELSE prefixes

\* cidr.go:258-272: the prefixes slice after one numeric identity
AppendResolved(prefixes, nid) ==
    LET found == LookupIdentityByID(nid)
        r == cidrLabelToPrefix(found.id.CIDRLabel)
    IN IF found.found /\ r.ok THEN Append(prefixes, r.prefix) ELSE prefixes

\* cidr.go:257-273: one iteration of the loop over the numeric identities
ResolveID(t) ==
    /\ pc[t] = "resolve"
    /\ call[t].i <= Len(call[t].ids)
    /\ call' = [call EXCEPT
          ![t].i = @ + 1,
          ![t].resolved = AppendResolved(@, call[t].ids[call[t].i])]
    /\ UNCHANGED <<allocatorVars, cache, metaReaders, mainLock, pc, workerVars,
                   envVars, recoverCount, ncalls, k8s>>

\* cidr.go:275: the resolved prefixes are enqueued
EnqueueResolved(t) ==
    /\ pc[t] = "resolve"
    /\ call[t].i > Len(call[t].ids)
    /\ queue' = enqueue(queue, call[t].resolved)
    /\ pc' = [pc EXCEPT ![t] = "released"]
    /\ call' = [call EXCEPT ![t] =
                 [NoCall EXCEPT !.prefixes = call[t].prefixes,
                                !.sinkGiven = call[t].sinkGiven]]
    /\ UNCHANGED <<allocatorVars, cache, metaReaders, mainLock, wpc, batch, widx,
                   toDelete, lastRef, relErr, envVars, recoverCount, ncalls,
                   k8s>>

\* mutant of Drain: the worker takes the first pending prefix and drops the
\* others
DrainDropsRest ==
    /\ wpc = "idle"
    /\ queue /= <<>>
    /\ batch' = <<Head(queue)>>
    /\ queue' = <<>>
    /\ wpc' = "lock"
    /\ UNCHANGED <<allocatorVars, cache, metaReaders, mainLock, pc, call, widx,
                   toDelete, lastRef, relErr, envVars, recoverCount, ncalls,
                   k8s>>

\* the background worker drains the queue into one release transaction
Drain ==
    /\ wpc = "idle"
    /\ queue /= <<>>
    /\ batch' = queue
    /\ queue' = <<>>
    /\ wpc' = "lock"
    /\ UNCHANGED <<allocatorVars, cache, metaReaders, mainLock, pc, call, widx,
                   toDelete, lastRef, relErr, envVars, recoverCount, ncalls,
                   k8s>>

\* ---------------------------------------------------- releaseCIDRIdentities
\* mutant of WorkerLock: the release transaction runs without ipc.Lock()
WorkerLockSkipped ==
    /\ wpc = "lock"
    /\ wpc' = "release"
    /\ widx' = 1
    /\ toDelete' = <<>>
    /\ lastRef' = {}
    /\ relErr' = {}
    /\ UNCHANGED <<allocatorVars, cache, metaReaders, mainLock, pc, call, queue,
                   batch, envVars, recoverCount, ncalls, k8s>>

\* cidr.go:206-209: ipc.Lock()
WorkerLock ==
    /\ wpc = "lock"
    /\ mainLock = NoHolder
    /\ mainLock' = Worker
    /\ wpc' = "release"
    /\ widx' = 1
    /\ toDelete' = <<>>
    /\ lastRef' = {}
    /\ relErr' = {}
    /\ UNCHANGED <<allocatorVars, cache, metaReaders, pc, call, queue, batch,
                   envVars, recoverCount, ncalls, k8s>>

\* cidr.go:218: the labels the release path looks the identity up under
ReleaseLabels(c) == GetCIDRLabels(c)

\* mutant of AppendReleased: the released test of cidr.go:233 is dropped
AppendAlways(td, prefix, released) == Append(td, prefix)

\* cidr.go:233-235: toDelete after the Release of one prefix
AppendReleased(td, prefix, released) ==
    IF released THEN Append(td, prefix) ELSE td

\* mutant of ReleaseStep: an entry that does not parse, or whose identity is
\* not found, ends the loop (break where cidr.go:216 and 223 continue)
ReleaseStepStopsAtSkipped ==
    /\ wpc = "release"
    /\ widx <= Len(batch)
    /\ LET prefix == batch[widx]
           parsed == ParseCIDR(prefix)
           found == IF parsed.ok THEN LookupIdentity(ReleaseLabels(parsed.net))
                    ELSE LookupIdentity({})
           r == Release(idRef, idNum, found.id)
           last == widx = Len(batch) \/ ~parsed.ok \/ ~found.found
       IN /\ IF ~parsed.ok \/ ~found.found
             THEN UNCHANGED <<idRef, idNum, toDelete, lastRef>>
             ELSE /\ idRef' = r.ref
                  /\ idNum' = r.num
                  /\ toDelete' = AppendReleased(toDelete, prefix, r.released)
                  /\ lastRef' = IF r.released THEN lastRef \cup {prefix} ELSE lastRef
          /\ widx' = IF last THEN 1 ELSE widx + 1
          /\ wpc' = IF last THEN "delete" ELSE "release"
    /\ UNCHANGED <<cache, metaReaders, mainLock, pc, call, queue, batch, relErr,
                   envVars, recoverCount, ncalls, k8s>>

\* cidr.go:210-236: one iteration of the release loop
ReleaseStep ==
    /\ wpc = "release"
    /\ widx <= Len(batch)
    /\ LET prefix == batch[widx]
           parsed == ParseCIDR(prefix)
           found == IF parsed.ok THEN LookupIdentity(ReleaseLabels(parsed.net))
                    ELSE LookupIdentity({})
           r == Release(idRef, idNum, found.id)
       IN IF ~parsed.ok \/ ~found.found
          THEN UNCHANGED <<idRef, idNum, toDelete, lastRef>>
          ELSE /\ idRef' = r.ref
               /\ idNum' = r.num
               /\ toDelete' = AppendReleased(toDelete, prefix, r.released)
               /\ lastRef' = IF r.released THEN lastRef \cup {prefix} ELSE lastRef
    /\ widx' = IF widx = Len(batch) THEN 1 ELSE widx + 1
    /\ wpc' = IF widx = Len(batch) THEN "delete" ELSE "release"
    /\ UNCHANGED <<cache, metaReaders, mainLock, pc, call, queue, batch, relErr,
                   envVars, recoverCount, ncalls, k8s>>

\* mutant of ReleaseStepError: the error of Release ends the loop
ReleaseStepErrorAborts ==
    /\ wpc = "release"
    /\ widx <= Len(batch)
    /\ LET prefix == batch[widx]
           parsed == ParseCIDR(prefix)
           found == IF parsed.ok THEN LookupIdentity(ReleaseLabels(parsed.net))
                    ELSE LookupIdentity({})
           r == Release(idRef, idNum, found.id)
       IN /\ parsed.ok /\ found.found
          /\ \E done \in BOOLEAN :
                LET released == done /\ r.released
                IN /\ idRef' = IF done THEN r.ref ELSE idRef
                   /\ idNum' = IF done THEN r.num ELSE idNum
                   /\ toDelete' = AppendReleased(toDelete, prefix, released)
                   /\ lastRef' = IF released THEN lastRef \cup {prefix} ELSE lastRef
          /\ relErr' = relErr \cup {prefix}
    /\ widx' = 1
    /\ wpc' = "delete"
    /\ UNCHANGED <<cache, metaReaders, mainLock, pc, call, queue, batch,
                   envVars, recoverCount, ncalls, k8s>>

\* cidr.go:225-236: one iteration of the release loop in which Release
\* returns an error: the error is logged and the loop goes on with what Release
\* reported.  The allocator may fail before the reference is dropped (done =
\* FALSE, nothing released) or after it (done = TRUE)
ReleaseStepError ==
    /\ wpc = "release"
    /\ widx <= Len(batch)
    /\ LET prefix == batch[widx]
           parsed == ParseCIDR(prefix)
           found == IF parsed.ok THEN LookupIdentity(ReleaseLabels(parsed.net))
                    ELSE LookupIdentity({})
           r == Release(idRef, idNum, found.id)
       IN /\ parsed.ok /\ found.found
          /\ \E done \in BOOLEAN :
                LET released == done /\ r.released
                IN /\ idRef' = IF done THEN r.ref ELSE idRef
                   /\ idNum' = IF done THEN r.num ELSE idNum
                   /\ toDelete' = AppendReleased(toDelete, prefix, released)
                   /\ lastRef' = IF released THEN lastRef \cup {prefix} ELSE lastRef
          /\ relErr' = relErr \cup {prefix}
    /\ widx' = IF widx = Len(batch) THEN 1 ELSE widx + 1
    /\ wpc' = IF widx = Len(batch) THEN "delete" ELSE "release"
    /\ UNCHANGED <<cache, metaReaders, mainLock, pc, call, queue, batch,
                   envVars, recoverCount, ncalls, k8s>>

\* cidr.go:238-240: one ipc.deleteLocked
DeleteStep ==
    /\ wpc = "delete"
    /\ widx <= Len(toDelete)
    /\ cache' = deleteLocked(cache, toDelete[widx])
    /\ widx' = widx + 1
    /\ UNCHANGED <<allocatorVars, metaReaders, mainLock, pc, call, queue, wpc,
                   batch, toDelete, lastRef, relErr, envVars, recoverCount, ncalls,
                   k8s>>

\* cidr.go:207,241: the deferred ipc.Unlock()
WorkerUnlock ==
    /\ wpc = "delete"
    /\ widx > Len(toDelete)
    /\ mainLock' = NoHolder
    /\ wpc' = "idle"
    /\ batch' = <<>>
    /\ widx' = 1
    /\ toDelete' = <<>>
    /\ lastRef' = {}
    /\ relErr' = {}
    /\ UNCHANGED <<allocatorVars, cache, metaReaders, pc, call, queue, envVars,
                   recoverCount, ncalls, k8s>>

\* ---------------------------------------------------------- metadata table
\* the metadata table is updated under ipc.metadata.Lock()
UpsertMetadata(p, lbls) ==
    /\ metaReaders = {}
    /\ metaChanges < MaxMetaChanges
    /\ meta[IPString(p)] /= lbls
    /\ meta' = [meta EXCEPT ![IPString(p)] = lbls]
    /\ metaChanges' = metaChanges + 1
    /\ rollbackErrs' = rollbackErrs
    /\ UNCHANGED <<allocatorVars, cache, metaReaders, mainLock, pc, call,
                   workerVars, recoverCount, ncalls, k8s>>

\* ------------------------------------------------------------ specification
Next ==
    \/ \E t \in Callers, prefixes \in Batches, oldNIDs \in OldNIDChoices,
          sinkGiven \in BOOLEAN : CallAllocateCIDRs(t, prefixes, oldNIDs, sinkGiven)
    \/ \E t \in Callers : Lock(t)
    \/ \E t \in Callers : LoopNil(t)
    \/ \E t \in Callers : LoopAllocate(t)
    \/ \E t \in Callers : LoopAllocateError(t)
    \/ \E t \in Callers : ErrorUnlock(t)
    \/ \E t \in Callers : ReturnError(t)
    \/ \E t \in Callers : LoopEnd(t)
    \/ \E t \in Callers : RUnlock(t)
    \/ \E t \in Callers, copies \in 0..MaxUsedCopies :
          CallUpsertGeneratedIdentities(t, copies)
    \/ \E t \in Callers : UpsertNew(t)
    \/ \E t \in Callers : UpsertScan(t)
    \/ \E t \in Callers : RecoverCount(t)
    \/ \E t \in Callers : UpsertRecover(t)
    \/ \E t \in Callers : ReleaseCIDRIdentitiesByCIDR(t)
    \/ Drain
    \/ WorkerLock
    \/ ReleaseStep
    \/ DeleteStep
    \/ WorkerUnlock
    \/ \E p \in Nets, lbls \in MetaLabelSets : UpsertMetadata(p, lbls)

Spec == Init /\ [][Next]_vars

\* ------------------------------------------ specification of release by ID
\* callers that allocate without sink and release by numeric identity or by
\* prefix
NextByID ==
    \/ \E t \in Callers, prefixes \in Batches :
          CallAllocateCIDRs(t, prefixes, <<>>, FALSE)
    \/ \E t \in Callers : Lock(t)
    \/ \E t \in Callers : LoopNil(t)
    \/ \E t \in Callers : LoopAllocate(t)
    \/ \E t \in Callers : LoopEnd(t)
    \/ \E t \in Callers : RUnlock(t)
    \/ \E t \in Callers : UpsertNew(t)
    \/ \E t \in Callers : \E identities \in IDChoices(call[t]) :
          CallReleaseCIDRIdentitiesByID(t, identities)
    \/ \E t \in Callers : ResolveID(t)
    \/ \E t \in Callers : EnqueueResolved(t)
    \/ \E t \in Callers : ReleaseCIDRIdentitiesByCIDR(t)
    \/ Drain
    \/ WorkerLock
    \/ ReleaseStep
    \/ DeleteStep
    \/ WorkerUnlock
    \/ \E p \in Nets, lbls \in MetaLabelSets : UpsertMetadata(p, lbls)

SpecByID == Init /\ [][NextByID]_vars

\* -------------------------------------------- specification with fairness
\* a step of the loop of AllocateCIDRs
LoopStep(t) ==
    LoopNil(t) \/ LoopAllocate(t) \/ LoopAllocateError(t) \/ LoopEnd(t) \/ RUnlock(t)

\* a step of UpsertGeneratedIdentities
UpsertStep(t) ==
    UpsertNew(t) \/ UpsertScan(t) \/ RecoverCount(t) \/ UpsertRecover(t)

\* a step of the release worker
WorkerStep == Drain \/ WorkerLock \/ ReleaseStep \/ DeleteStep \/ WorkerUnlock

\* a goroutine inside a call keeps running, and a goroutine waiting for a
\* mutex that stays free gets it; when callers start calls, and when the
\* metadata table changes, is left open
Fairness ==
    /\ \A t \in Callers : WF_vars(Lock(t))
    /\ \A t \in Callers : WF_vars(LoopStep(t))
    /\ \A t \in Callers : WF_vars(ErrorUnlock(t) \/ ReturnError(t))
    /\ \A t \in Callers : WF_vars(UpsertStep(t))
    /\ WF_vars(WorkerStep)

\* the prefix sequences of the calls whose completion is checked: one entry
LiveBatches == {<<p>> : p \in Nets \cup {Nil}}

\* the operations that take locks and those that feed them, with the calls
\* of AllocateCIDRs drawn from LiveBatches and the releases made by prefix
NextLive ==
    \/ \E t \in Callers, prefixes \in LiveBatches, sinkGiven \in BOOLEAN :
          CallAllocateCIDRs(t, prefixes, <<>>, sinkGiven)
    \/ \E t \in Callers : Lock(t)
    \/ \E t \in Callers : LoopNil(t)
    \/ \E t \in Callers : LoopAllocate(t)
    \/ \E t \in Callers : LoopAllocateError(t)
    \/ \E t \in Callers : ErrorUnlock(t)
    \/ \E t \in Callers : ReturnError(t)
    \/ \E t \in Callers : LoopEnd(t)
    \/ \E t \in Callers : RUnlock(t)
    \/ \E t \in Callers, copies \in 0..MaxUsedCopies :
          CallUpsertGeneratedIdentities(t, copies)
    \/ \E t \in Callers : UpsertNew(t)
    \/ \E t \in Callers : UpsertScan(t)
    \/ \E t \in Callers : RecoverCount(t)
    \/ \E t \in Callers : UpsertRecover(t)
    \/ \E t \in Callers : ReleaseCIDRIdentitiesByCIDR(t)
    \/ Drain
    \/ WorkerLock
    \/ ReleaseStep
    \/ DeleteStep
    \/ WorkerUnlock
    \/ \E p \in Nets, lbls \in MetaLabelSets : UpsertMetadata(p, lbls)

FairSpec == Init /\ [][NextLive]_vars /\ Fairness

\* ------------------------------------- specification with previous identities
\* the previous numeric identities callers remember: the first number the
\* allocator hands out and one it hands out late
HintNIDs == {Min(NIDs), MaxNID - 1}

\* the oldNIDs slices a caller may pass: nil, or up to MaxBatch numeric
\* identities, InvalidIdentity for a prefix that has none
HintChoices == SeqsUpTo({InvalidIdentity} \cup HintNIDs, MaxBatch)

\* callers that pass previous numeric identities and no sink, with the
\* metadata table left as it is
NextHints ==
    \/ \E t \in Callers, prefixes \in Batches, oldNIDs \in HintChoices :
          CallAllocateCIDRs(t, prefixes, oldNIDs, FALSE)
    \/ \E t \in Callers : Lock(t)
    \/ \E t \in Callers : LoopNil(t)
    \/ \E t \in Callers : LoopAllocate(t)
    \/ \E t \in Callers : LoopAllocateError(t)
    \/ \E t \in Callers : ErrorUnlock(t)
    \/ \E t \in Callers : ReturnError(t)
    \/ \E t \in Callers : LoopEnd(t)
    \/ \E t \in Callers : RUnlock(t)
    \/ \E t \in Callers : UpsertNew(t)
    \/ \E t \in Callers : ReleaseCIDRIdentitiesByCIDR(t)
    \/ Drain
    \/ WorkerLock
    \/ ReleaseStep
    \/ DeleteStep
    \/ WorkerUnlock

SpecHints == Init /\ [][NextHints]_vars

\* ------------------------------------ specification of the used-list upsert
\* an identity of another subsystem as a caller may hold it: allocate never
\* gave it a CIDR label
ForeignIdentity == [ID |-> ForeignNID, Labels |-> ForeignLabels, CIDRLabel |-> ""]

\* the used lists that hold the identities ids and, somewhere among them, the
\* identity of another subsystem
WithForeign(ids) ==
    {SubSeq(ids, 1, k) \o <<ForeignIdentity>> \o SubSeq(ids, k + 1, Len(ids)) :
        k \in 0..Len(ids)}

\* cidr.go:119: UpsertGeneratedIdentities(nil, usedList) by a caller that was
\* returned identities
CallUpsertUsedIdentities(t, usedList) ==
    /\ pc[t] = "returned"
    /\ call' = [call EXCEPT ![t].newMap = EmptyMap, ![t].newTodo = {},
                            ![t].usedList = usedList]
    /\ pc' = [pc EXCEPT ![t] = AfterNew({}, usedList)]
    /\ UNCHANGED <<allocatorVars, cache, metaReaders, mainLock, workerVars,
                   envVars, recoverCount, ncalls, k8s>>

\* callers that allocate with a sink and then upsert a used list that holds
\* their identities and the identity of another subsystem
NextUpsert ==
    \/ \E t \in Callers, prefixes \in Batches :
          CallAllocateCIDRs(t, prefixes, <<>>, TRUE)
    \/ \E t \in Callers : Lock(t)
    \/ \E t \in Callers : LoopNil(t)
    \/ \E t \in Callers : LoopAllocate(t)
    \/ \E t \in Callers : LoopEnd(t)
    \/ \E t \in Callers : RUnlock(t)
    \/ \E t \in Callers : \E usedList \in WithForeign(call[t].identities) :
          CallUpsertUsedIdentities(t, usedList)
    \/ \E t \in Callers : UpsertScan(t)
    \/ \E t \in Callers : RecoverCount(t)
    \/ \E t \in Callers : UpsertRecover(t)

SpecUpsert == Init /\ [][NextUpsert]_vars

\* --------------------------------- specification of the release transaction
\* callers that allocate without sink and release the slice they allocated,
\* with an allocator whose Release may return an error
NextRelease ==
    \/ \E t \in Callers, prefixes \in Batches :
          CallAllocateCIDRs(t, prefixes, <<>>, FALSE)
    \/ \E t \in Callers : Lock(t)
    \/ \E t \in Callers : LoopNil(t)
    \/ \E t \in Callers : LoopAllocate(t)
    \/ \E t \in Callers : LoopEnd(t)
    \/ \E t \in Callers : RUnlock(t)
    \/ \E t \in Callers : UpsertNew(t)
    \/ \E t \in Callers : ReleaseCIDRIdentitiesByCIDRSlice(t)
    \/ Drain
    \/ WorkerLock
    \/ ReleaseStep
    \/ ReleaseStepError
    \/ DeleteStep
    \/ WorkerUnlock
    \/ \E p \in Nets, lbls \in MetaLabelSets : UpsertMetadata(p, lbls)

SpecRelease == Init /\ [][NextRelease]_vars

\* ------------------------------------ specification of allocation by address
\* the address slices a caller may pass: up to MaxBatch addresses
IPBatches == SeqsUpTo(IPs, MaxBatch) \ {<<>>}

\* callers that allocate by bare addresses, with and without sink
NextIPs ==
    \/ \E t \in Callers, ips \in IPBatches, sinkGiven \in BOOLEAN :
          CallAllocateCIDRsForIPs(t, ips, sinkGiven)
    \/ \E t \in Callers : Lock(t)
    \/ \E t \in Callers : LoopAllocate(t)
    \/ \E t \in Callers : LoopAllocateError(t)
    \/ \E t \in Callers : ErrorUnlock(t)
    \/ \E t \in Callers : ReturnError(t)
    \/ \E t \in Callers : LoopEnd(t)
    \/ \E t \in Callers : RUnlock(t)
    \/ \E t \in Callers, copies \in 0..MaxUsedCopies :
          CallUpsertGeneratedIdentities(t, copies)
    \/ \E t \in Callers : UpsertNew(t)
    \/ \E t \in Callers : UpsertScan(t)
    \/ \E t \in Callers : RecoverCount(t)
    \/ \E t \in Callers : UpsertRecover(t)
    \/ \E p \in Nets, lbls \in MetaLabelSets : UpsertMetadata(p, lbls)

SpecIPs == Init /\ [][NextIPs]_vars

\* --------------------------------------------------- Kubernetes node parsing
\* annotation.V4CIDRName and annotation.V6CIDRName: the annotation keys
V4CIDRName == "V4CIDRName"
V6CIDRName == "V6CIDRName"

\* the CIDR strings and the names of the nodes of TestParseNode
PodCIDRv4 == "10.1.0.0/16"
AnnotatedCIDRv4 == "10.254.0.0/16"
CIDRv6 == "f00d:aaaa:bbbb:cccc:dddd:eeee::/112"

\* a nil *cidr.CIDR, and an empty PodCIDR
NoCIDR == ""

\* the annotation maps and label maps of the nodes
AnnotationMaps ==
    {EmptyMap,
     [x \in {V4CIDRName} |-> AnnotatedCIDRv4],
     [x \in {V6CIDRName} |-> CIDRv6],
     [x \in {V4CIDRName, V6CIDRName} |->
        IF x = V4CIDRName THEN AnnotatedCIDRv4 ELSE CIDRv6]}

LabelMaps == {EmptyMap, [x \in {"type"} |-> "m5.xlarge"]}

\* the slim_corev1.Node values ParseNode is given
K8sNodes ==
    [Name : {"node1", "node2"}, Annotations : AnnotationMaps, Labels : LabelMaps,
     PodCIDR : {NoCIDR, PodCIDRv4, CIDRv6}]

\* allocCIDR.IP.To4() != nil: the CIDR string is written with dots
IsIPv4(s) == \E k \in 1..Len(s) : SubSeq(s, k, k) = "."

\* mutant of ParseNode: the CIDR annotations take precedence over the PodCIDR
ParseNodeAnnotationsFirst(k8sNode, annotate) ==
    LET pod == k8sNode.PodCIDR
        ann(name) == IF annotate /\ name \in DOMAIN k8sNode.Annotations
                     THEN k8sNode.Annotations[name] ELSE NoCIDR
        v4pod == IF pod /= NoCIDR /\ IsIPv4(pod) THEN pod ELSE NoCIDR
        v6pod == IF pod /= NoCIDR /\ ~IsIPv4(pod) THEN pod ELSE NoCIDR
    IN [Name |-> k8sNode.Name,
        IPv4AllocCIDR |-> IF ann(V4CIDRName) /= NoCIDR THEN ann(V4CIDRName) ELSE v4pod,
        IPv6AllocCIDR |-> IF ann(V6CIDRName) /= NoCIDR THEN ann(V6CIDRName) ELSE v6pod,
        Labels |-> k8sNode.Labels]

\* ParseNode(k8sNode, source.Local) under option.Config.AnnotateK8sNode =
\* annotate: name and labels are copied, the PodCIDR gives the allocation
\* CIDR of its family, and a family left without gets its annotation when
\* node annotation is enabled
ParseNode(k8sNode, annotate) ==
    LET pod == k8sNode.PodCIDR
        ann(name) == IF annotate /\ name \in DOMAIN k8sNode.Annotations
                     THEN k8sNode.Annotations[name] ELSE NoCIDR
        v4pod == IF pod /= NoCIDR /\ IsIPv4(pod) THEN pod ELSE NoCIDR
        v6pod == IF pod /= NoCIDR /\ ~IsIPv4(pod) THEN pod ELSE NoCIDR
    IN [Name |-> k8sNode.Name,
        IPv4AllocCIDR |-> IF v4pod /= NoCIDR THEN v4pod ELSE ann(V4CIDRName),
        IPv6AllocCIDR |-> IF v6pod /= NoCIDR THEN v6pod ELSE ann(V6CIDRName),
        Labels |-> k8sNode.Labels]

\* n := ParseNode(k8sNode, source.Local)
CallParseNode ==
    /\ ~k8s.parsed
    /\ k8s' = [k8s EXCEPT !.n = ParseNode(k8s.k8sNode, k8s.AnnotateK8sNode),
                          !.parsed = TRUE]
    /\ UNCHANGED <<allocatorVars, cache, metaReaders, mainLock, pc, call,
                   workerVars, envVars, recoverCount, ncalls>>

\* a node of K8sNodes is parsed, with node annotation enabled or not
InitNode ==
    /\ InitIPCache
    /\ k8s \in [AnnotateK8sNode : BOOLEAN, k8sNode : K8sNodes, n : {<<>>},
                parsed : {FALSE}]

NextNode == CallParseNode

SpecNode == InitNode /\ [][NextNode]_vars

\* the cases of TestParseNode and TestParseNodeWithoutAnnotations: the option,
\* the node, and the values the test asserts of the parsed node
TestParseNodeCases ==
    {[annotate |-> TRUE,
      node |-> [Name |-> "node1",
                Annotations |-> [x \in {V4CIDRName, V6CIDRName} |->
                                   IF x = V4CIDRName THEN "10.254.0.0/16"
                                   ELSE "f00d:aaaa:bbbb:cccc:dddd:eeee::/112"],
                Labels |-> [x \in {"type"} |-> "m5.xlarge"],
                PodCIDR |-> "10.1.0.0/16"],
      v4 |-> "10.1.0.0/16", v6 |-> "f00d:aaaa:bbbb:cccc:dddd:eeee::/112"],
     [annotate |-> TRUE,
      node |-> [Name |-> "node2",
                Annotations |-> [x \in {V4CIDRName} |-> "10.254.0.0/16"],
                Labels |-> EmptyMap,
                PodCIDR |-> "10.1.0.0/16"],
      v4 |-> "10.1.0.0/16", v6 |-> NoCIDR],
     [annotate |-> TRUE,
      node |-> [Name |-> "node2",
                Annotations |-> [x \in {V4CIDRName} |-> "10.254.0.0/16"],
                Labels |-> EmptyMap,
                PodCIDR |-> "f00d:aaaa:bbbb:cccc:dddd:eeee::/112"],
      v4 |-> "10.254.0.0/16", v6 |-> "f00d:aaaa:bbbb:cccc:dddd:eeee::/112"],
     [annotate |-> FALSE,
      node |-> [Name |-> "node1",
                Annotations |-> [x \in {V4CIDRName, V6CIDRName} |->
                                   IF x = V4CIDRName THEN "10.254.0.0/16"
                                   ELSE "f00d:aaaa:bbbb:cccc:dddd:eeee::/112"],
                Labels |-> [x \in {"type"} |-> "m5.xlarge"],
                PodCIDR |-> "10.1.0.0/16"],
      v4 |-> "10.1.0.0/16", v6 |-> NoCIDR],
     [annotate |-> FALSE,
      node |-> [Name |-> "node2",
                Annotations |-> [x \in {V4CIDRName} |-> "10.254.0.0/16"],
                Labels |-> EmptyMap,
                PodCIDR |-> "f00d:aaaa:bbbb:cccc:dddd:eeee::/112"],
      v4 |-> NoCIDR, v6 |-> "f00d:aaaa:bbbb:cccc:dddd:eeee::/112"]}

\* ------------------------- specification of allocation without a sink alone
\* callers of AllocateCIDRs(prefixes, nil, nil): no release, no metadata
\* change, no caller-side upsert
NextAlloc ==
    \/ \E t \in Callers, prefixes \in Batches :
          CallAllocateCIDRs(t, prefixes, <<>>, FALSE)
    \/ \E t \in Callers : Lock(t)
    \/ \E t \in Callers : LoopNil(t)
    \/ \E t \in Callers : LoopAllocate(t)
    \/ \E t \in Callers : LoopAllocateError(t)
    \/ \E t \in Callers : ErrorUnlock(t)
    \/ \E t \in Callers : ReturnError(t)
    \/ \E t \in Callers : LoopEnd(t)
    \/ \E t \in Callers : RUnlock(t)
    \/ \E t \in Callers : UpsertNew(t)

SpecAlloc == Init /\ [][NextAlloc]_vars

\* ------------------------------------ specification of the rollback alone
\* the longest batch a caller passes under SpecRollback: long enough for a
\* rollback of two allocations, of one identity twice included
MaxRollbackBatch == 3

RollbackBatches == SeqsUpTo(Nets \cup {Nil}, MaxRollbackBatch) \ {<<>>}

\* callers of AllocateCIDRs with and without a sink whose allocations may
\* fail: no release by the callers, no metadata change
NextRollback ==
    \/ \E t \in Callers, prefixes \in RollbackBatches, sinkGiven \in BOOLEAN :
          CallAllocateCIDRs(t, prefixes, <<>>, sinkGiven)
    \/ \E t \in Callers : Lock(t)
    \/ \E t \in Callers : LoopNil(t)
    \/ \E t \in Callers : LoopAllocate(t)
    \/ \E t \in Callers : LoopAllocateError(t)
    \/ \E t \in Callers : ErrorUnlock(t)
    \/ \E t \in Callers : ReturnError(t)
    \/ \E t \in Callers : LoopEnd(t)
    \/ \E t \in Callers : RUnlock(t)
    \/ \E t \in Callers : UpsertNew(t)

SpecRollback == Init /\ [][NextRollback]_vars

\* ------------------------------ specification of the wait for the k8s node
\* Under SpecWait the variable k8s is the record of one call of
\* waitForNodeInformation: the options it reads, the loop variable, the
\* outcome of the latest attempt and the value returned.

\* cidr.go:547-549
nodeRetrievalMaxRetries == 15

\* the values of option.Config.IPAM: the two cluster-pool modes and another
IPAMClusterPool == "cluster-pool"
IPAMClusterPoolV2 == "cluster-pool-v2-beta"
IPAMKubernetes == "kubernetes"
IPAMModes == {IPAMClusterPool, IPAMClusterPoolV2, IPAMKubernetes}

\* a nil *nodeTypes.Node, and a nil error
NilNode ==
    [Name |-> "<nil>", IPv4AllocCIDR |-> NoCIDR, IPv6AllocCIDR |-> NoCIDR,
     Labels |-> EmptyMap]
NoError == "<nil>"

\* the Kubernetes nodes the getter may hand over
FetchedK8sNodes == {k \in K8sNodes : k.Name = "node1" /\ k.Labels = EmptyMap}

\* the CiliumNode objects the getter may hand over: the pod CIDRs of
\* spec.ipam
CiliumNodes ==
    [Name : {"node1"},
     PodCIDRs : {<<>>, <<PodCIDRv4>>, <<CIDRv6>>, <<PodCIDRv4, CIDRv6>>}]

\* nodeTypes.ParseCiliumNode: the first pod CIDR of each family is the
\* allocation CIDR of that family
ParseCiliumNode(ciliumNode) ==
    LET cidrs == ciliumNode.PodCIDRs
        first(v4) ==
            IF \E k \in 1..Len(cidrs) : IsIPv4(cidrs[k]) = v4
            THEN cidrs[Min({k \in 1..Len(cidrs) : IsIPv4(cidrs[k]) = v4})]
            ELSE NoCIDR
    IN [Name |-> ciliumNode.Name, IPv4AllocCIDR |-> first(TRUE),
        IPv6AllocCIDR |-> first(FALSE), Labels |-> EmptyMap]

\* what GetCiliumNode or GetK8sNode returns: an error, or an object;
\* converts tells whether ConvertToNode gives a node for the object
GetterResults(ipam) ==
    {[err |-> TRUE, node |-> NilNode, converts |-> FALSE]}
    \cup (IF ipam \in {IPAMClusterPool, IPAMClusterPoolV2}
          THEN [err : {FALSE}, node : CiliumNodes, converts : {TRUE}]
          ELSE [err : {FALSE}, node : FetchedK8sNodes, converts : BOOLEAN])

\* mutant of retrieveNodeInformation: the required IPv6 CIDR is not looked at
retrieveNodeInformationIPv4Only(cfg, got) ==
    LET optional == ~cfg.K8sRequireIPv4PodCIDR /\ ~cfg.K8sRequireIPv6PodCIDR
                       /\ ~cfg.MightAutoDetectDevices
        clusterPool == cfg.IPAM \in {IPAMClusterPool, IPAMClusterPoolV2}
        n == IF clusterPool THEN ParseCiliumNode(got.node)
             ELSE ParseNode(got.node, cfg.AnnotateK8sNode)
    IN IF got.err
       THEN [n |-> NilNode,
             err |-> IF optional THEN NoError
                     ELSE IF clusterPool THEN "unable to retrieve CiliumNode"
                     ELSE "unable to retrieve k8s node information"]
       ELSE IF ~clusterPool /\ ~got.converts
       THEN [n |-> NilNode, err |-> "invalid k8s node"]
       ELSE IF cfg.K8sRequireIPv4PodCIDR /\ n.IPv4AllocCIDR = NoCIDR
       THEN [n |-> NilNode, err |-> "required IPv4 PodCIDR not available"]
       ELSE [n |-> n, err |-> NoError]

\* cidr.go:578-639: the node and the error retrieveNodeInformation returns
\* under the options cfg when the getter returns got
retrieveNodeInformation(cfg, got) ==
    LET optional == ~cfg.K8sRequireIPv4PodCIDR /\ ~cfg.K8sRequireIPv6PodCIDR
                       /\ ~cfg.MightAutoDetectDevices
        clusterPool == cfg.IPAM \in {IPAMClusterPool, IPAMClusterPoolV2}
        n == IF clusterPool THEN ParseCiliumNode(got.node)
             ELSE ParseNode(got.node, cfg.AnnotateK8sNode)
    IN IF got.err
       THEN [n |-> NilNode,
             err |-> IF optional THEN NoError
                     ELSE IF clusterPool THEN "unable to retrieve CiliumNode"
                     ELSE "unable to retrieve k8s node information"]
       ELSE IF ~clusterPool /\ ~got.converts
       THEN [n |-> NilNode, err |-> "invalid k8s node"]
       ELSE IF cfg.K8sRequireIPv4PodCIDR /\ n.IPv4AllocCIDR = NoCIDR
       THEN [n |-> NilNode, err |-> "required IPv4 PodCIDR not available"]
       ELSE IF cfg.K8sRequireIPv6PodCIDR /\ n.IPv6AllocCIDR = NoCIDR
       THEN [n |-> NilNode, err |-> "required IPv6 PodCIDR not available"]
       ELSE [n |-> n, err |-> NoError]

\* the options a call runs under
NodeConfigs ==
    [K8sRequireIPv4PodCIDR : BOOLEAN, K8sRequireIPv6PodCIDR : BOOLEAN,
     MightAutoDetectDevices : BOOLEAN, IPAM : IPAMModes,
     AnnotateK8sNode : BOOLEAN]

\* a getter result before the first attempt
NoResult == [err |-> FALSE, node |-> NilNode, converts |-> FALSE]

\* the state of a call of waitForNodeInformation at its entry (cidr.go:556-563)
InitWait ==
    /\ InitIPCache
    /\ k8s \in [cfg : NodeConfigs, pc : {"attempt"}, retry : {0},
                got : {NoResult}, n : {NilNode}, err : {NoError},
                attempts : {0}, waits : {0}, ret : {NilNode}]

\* mutant of WaitRetrieve: a failed attempt is followed by the next one at
\* once
WaitRetrieveNoBackoff ==
    /\ k8s.pc = "attempt"
    /\ k8s.retry < nodeRetrievalMaxRetries
    /\ \E got \in GetterResults(k8s.cfg.IPAM) :
          LET r == retrieveNodeInformation(k8s.cfg, got)
          IN k8s' = [k8s EXCEPT
                       !.got = got, !.n = r.n, !.err = r.err,
                       !.attempts = @ + 1,
                       !.retry = IF r.err /= NoError THEN @ + 1 ELSE @,
                       !.pc = IF r.err /= NoError THEN "attempt" ELSE "done",
                       !.ret = IF r.err /= NoError THEN @ ELSE r.n]
    /\ UNCHANGED <<allocatorVars, cache, metaReaders, mainLock, pc, call,
                   workerVars, envVars, recoverCount, ncalls>>

\* cidr.go:565-574: one attempt of the loop; without error its node is
\* returned
WaitRetrieve ==
    /\ k8s.pc = "attempt"
    /\ k8s.retry < nodeRetrievalMaxRetries
    /\ \E got \in GetterResults(k8s.cfg.IPAM) :
          LET r == retrieveNodeInformation(k8s.cfg, got)
          IN k8s' = [k8s EXCEPT
                       !.got = got, !.n = r.n, !.err = r.err,
                       !.attempts = @ + 1,
                       !.pc = IF r.err /= NoError THEN "backoff" ELSE "done",
                       !.ret = IF r.err /= NoError THEN @ ELSE r.n]
    /\ UNCHANGED <<allocatorVars, cache, metaReaders, mainLock, pc, call,
                   workerVars, envVars, recoverCount, ncalls>>

\* cidr.go:567-571: after a failed attempt backoff.Wait, then the next round
WaitBackoff ==
    /\ k8s.pc = "backoff"
    /\ k8s' = [k8s EXCEPT !.waits = @ + 1, !.retry = @ + 1, !.pc = "attempt"]
    /\ UNCHANGED <<allocatorVars, cache, metaReaders, mainLock, pc, call,
                   workerVars, envVars, recoverCount, ncalls>>

\* cidr.go:565, 576: the loop ends with the last retry and nil is returned
WaitReturnNil ==
    /\ k8s.pc = "attempt"
    /\ k8s.retry >= nodeRetrievalMaxRetries
    /\ k8s' = [k8s EXCEPT !.pc = "done", !.ret = NilNode]
    /\ UNCHANGED <<allocatorVars, cache, metaReaders, mainLock, pc, call,
                   workerVars, envVars, recoverCount, ncalls>>

NextWait == WaitRetrieve \/ WaitBackoff \/ WaitReturnNil

\* the goroutine that runs waitForNodeInformation keeps running: the getter
\* answers and backoff.Wait returns after at most its Max of two minutes
SpecWait == InitWait /\ [][NextWait]_vars /\ WF_vars(NextWait)

\* ================================================================== claims
HolderPCs ==
    {"unlocked", "upsertNew", "scan", "recover", "recoverUpsert", "returned", "holding"}
SettledPCs == {"idle", "failed", "released", "holding"}

CIDRLabelStr(ps) == LabelSourceCIDR \o ":" \o ps

\* the allocated identities that carry the CIDR label of a prefix
IdentitiesOf(ps) == {l \in LabelSets : idRef[l] > 0 /\ CIDRLabelStr(ps) \in l}

NonNil(prefixes) == {prefixes[k] : k \in 1..Len(prefixes)} \ {Nil}
Distinct(prefixes) ==
    \A j, k \in 1..Len(prefixes) : j /= k => prefixes[j] /= prefixes[k]

\* no AllocateCIDRs or UpsertGeneratedIdentities call and no release
\* transaction is in progress
Settled == (\A t \in Callers : pc[t] \in SettledPCs) /\ wpc = "idle"

\* C1 as stated: when the allocation of the k-th prefix fails, the rollback
\* brings every allocator reference count back to its value at the start of
\* the batch, and the call returns an error and no identities.
C1_RollbackRestoresRefs ==
    \A t \in Callers :
        /\ pc[t] = "rolledback" => idRef = call[t].baseRef
        /\ pc[t] = "failed" => call[t].err /\ call[t].identities = <<>>

\* the number of references the call of t took under the label set and whose
\* Release failed in its rollback
Failed(t, lbls) ==
    Cardinality({k \in call[t].releaseErrs : call[t].usedIdentities[k].Labels = lbls})

\* C1 amended: when the allocation of the k-th prefix fails, the call returns
\* an error and no identities, and Release has been called once per allocation
\* of the first k-1 prefixes: every allocator reference count is its value at
\* the start of the batch plus the number of those releases that failed, so
\* it is that value when no release of the rollback failed.
C1_RollbackReleasesEach ==
    \A t \in Callers :
        /\ pc[t] = "rolledback" =>
              /\ \A l \in AllLabelSets : idRef[l] = call[t].baseRef[l] + Failed(t, l)
              /\ call[t].releaseErrs = {} => idRef = call[t].baseRef
        /\ pc[t] = "failed" => call[t].err /\ call[t].identities = <<>>

C1_Witness ==
    \E t, u \in Callers :
        /\ t /= u
        /\ pc[t] = "rolledback"
        /\ call[t].i = 3
        /\ Len(call[t].usedIdentities) = 2
        /\ call[t].usedIdentities[1] = call[t].usedIdentities[2]
        /\ call[t].releaseErrs = {}
        /\ pc[u] \in HolderPCs
        /\ idRef[call[t].usedIdentities[1].Labels] = 1
        /\ call[t].baseRef[call[t].usedIdentities[1].Labels] = 1

\* C2: a failed AllocateCIDRs call has upserted nothing: when it has rolled
\* back, the cache is what it was when the batch began, with or without a sink.
C2_FailedCallNoUpsert ==
    \A t \in Callers :
        pc[t] = "rolledback" =>
            cache = call[t].baseCache /\ call[t].upserted = {}

C2_Witness ==
    \E t \in Callers :
        /\ pc[t] = "rolledback"
        /\ ~call[t].sinkGiven
        /\ DOMAIN call[t].newlyAllocatedIdentities /= {}

\* C3: once an allocation of P and a release transaction for P have both
\* completed, P's identity is not allocated while the cache has no entry for P
\* (no reference is one a failed rollback left behind).
C3_NoIdentityWithoutEntry ==
    (Settled /\ rollbackErrs = 0) =>
        \A ps \in PrefixStrings : IdentitiesOf(ps) /= {} => ps \in DOMAIN cache

\* C4: in a quiescent state the cache holds a Generated entry for P exactly
\* when a CIDR identity of P is referenced, and the release path is never
\* about to delete the entry of a prefix whose identity is still referenced
\* (no reference is one a failed rollback left behind).
C4_GeneratedEntryIffReferenced ==
    /\ (Settled /\ queue = <<>> /\ rollbackErrs = 0) =>
          \A ps \in PrefixStrings :
              (ps \in DOMAIN cache /\ cache[ps].Source = SourceGenerated)
                  <=> IdentitiesOf(ps) /= {}
    /\ (wpc = "delete" /\ rollbackErrs = 0) =>
          \A k \in widx..Len(toDelete) : IdentitiesOf(toDelete[k]) = {}

\* a step of the release transaction leaves alone every cache entry whose
\* prefix the allocator has not reported as fully released
ReleaseKeepsReferenced ==
    wpc \in {"release", "delete"} =>
        \A ps \in PrefixStrings \ lastRef' :
            /\ (ps \in DOMAIN cache) <=> (ps \in DOMAIN cache')
            /\ ps \in DOMAIN cache => cache'[ps] = cache[ps]

\* C5: during a release transaction the cache entry of a prefix changes only
\* if the allocator's Release reported the last reference of that prefix as
\* released; an entry whose identity was only decremented stays as it is.
C5_DeleteOnlyLastReference == [][ReleaseKeepsReferenced]_vars

C5_Witness ==
    /\ wpc = "delete"
    /\ widx > Len(toDelete)
    /\ lastRef /= {}
    /\ \E k \in 1..Len(batch) :
          /\ batch[k] \notin lastRef
          /\ batch[k] \in DOMAIN cache
          /\ idRef[GetCIDRLabels(ParseCIDR(batch[k]).net)] > 0

\* C6: from its first allocator Release to its last cache delete the release
\* transaction holds ipc.mutex, and no AllocateCIDRs call is inside its
\* derive+allocate loop meanwhile.
C6_ReleaseHoldsMainLock ==
    wpc \in {"release", "delete"} =>
        /\ mainLock = Worker
        /\ \A t \in Callers : pc[t] \notin {"loop", "rolledback"}

C6_Witness ==
    /\ wpc = "delete"
    /\ widx <= Len(toDelete)
    /\ \E t \in Callers :
          /\ pc[t] = "lock"
          /\ \E p \in NonNil(call[t].prefixes) : String(p) = toDelete[widx]

\* C7: a first call that allocates distinct prefixes with no sink returns one
\* distinct identity per prefix and leaves a Generated entry for each; once it
\* has released them and the queue is drained, the entries are gone and every
\* reference count is zero.
C7_AllocateReleaseRoundTrip ==
    \A t \in Callers :
        (/\ ncalls = 1
         /\ ~call[t].sinkGiven
         /\ call[t].prefixes /= <<>>
         /\ Nil \notin {call[t].prefixes[k] : k \in 1..Len(call[t].prefixes)}
         /\ Distinct(call[t].prefixes))
        =>
        /\ pc[t] = "holding" =>
              /\ Cardinality({call[t].identities[k].ID : k \in 1..Len(call[t].identities)})
                    = Len(call[t].prefixes)
              /\ \A p \in NonNil(call[t].prefixes) :
                    /\ String(p) \in DOMAIN cache
                    /\ cache[String(p)].Source = SourceGenerated
        /\ (pc[t] = "released" /\ queue = <<>> /\ wpc = "idle") =>
              /\ \A p \in NonNil(call[t].prefixes) : String(p) \notin DOMAIN cache
              /\ \A l \in LabelSets : idRef[l] = 0

\* C8: when every caller has allocated once (no prefix twice in one call) and
\* has released once, and all releases have been processed, no reference and
\* no cache entry is left.
C8_NoReferenceLeaks ==
    (/\ \A t \in Callers :
           pc[t] = "released" /\ Distinct(call[t].prefixes)
     /\ ncalls = NumCallers
     /\ queue = <<>>
     /\ wpc = "idle")
    =>
    /\ \A l \in LabelSets : idRef[l] = 0
    /\ cache = EmptyMap

\* a step of LoopAllocate by caller u
AllocatesNow(u) ==
    /\ pc[u] = "loop"
    /\ pc'[u] = "loop"
    /\ call[u].i <= Len(call[u].prefixes)
    /\ call[u].prefixes[call[u].i] /= Nil
    /\ call'[u].i = call[u].i + 1

\* caller t holds, from an earlier successful call, an identity for the prefix
\* string ps that has not been released since
StillHolds(t, ps) ==
    /\ pc[t] \in HolderPCs
    /\ ps \in DOMAIN call[t].allocatedIdentities
    /\ idRef[call[t].allocatedIdentities[ps].Labels] > 0
    /\ idNum[call[t].allocatedIdentities[ps].Labels] = call[t].allocatedIdentities[ps].ID

SecondAllocationReuses(t, u, ps) ==
    /\ call'[u].allocatedIdentities[ps].ID = call[t].allocatedIdentities[ps].ID
    /\ DOMAIN call'[u].newlyAllocatedIdentities = DOMAIN call[u].newlyAllocatedIdentities
    /\ call'[u].reportedNew = call[u].reportedNew
    /\ cache' = cache

\* the upserts that AllocateCIDRs makes itself (no sink) are of prefixes whose
\* allocation was reported as new in this call
ReusedNotUpserted ==
    \A u \in Callers :
        (pc[u] = "upsertNew" /\ ~call[u].sinkGiven) =>
            \A e \in call'[u].upserted \ call[u].upserted :
                e[1] \in call[u].reportedNew

SamePrefixReuses ==
    \A t, u \in Callers :
        (t /= u /\ AllocatesNow(u)
         /\ StillHolds(t, String(call[u].prefixes[call[u].i])))
        => SecondAllocationReuses(t, u, String(call[u].prefixes[call[u].i]))

\* C9 as stated: a second allocation of a prefix that another call holds
\* unreleased gets the same numeric identity and is not new.
C9_SamePrefixSameIdentity == [][SamePrefixReuses /\ ReusedNotUpserted]_vars

SameLabelsReuses ==
    \A t, u \in Callers :
        (t /= u /\ AllocatesNow(u)
         /\ StillHolds(t, String(call[u].prefixes[call[u].i]))
         /\ call[t].allocatedIdentities[String(call[u].prefixes[call[u].i])].Labels
              = DeriveLabels(call[u].prefixes[call[u].i]))
        => SecondAllocationReuses(t, u, String(call[u].prefixes[call[u].i]))

\* C9 amended: a second allocation of a prefix that another call holds
\* unreleased, made with the same metadata labels registered for the address
\* as at the first one, gets the same numeric identity and is not new: nothing
\* is added for it to the new-identity map (the sink) and the call does not
\* upsert it.
C9_SameLabelsSameIdentity == [][SameLabelsReuses /\ ReusedNotUpserted]_vars

C9_Witness ==
    \E t, u \in Callers :
        /\ t /= u
        /\ pc[t] \in HolderPCs
        /\ pc[u] \in HolderPCs
        /\ \E ps \in DOMAIN call[t].allocatedIdentities \cap DOMAIN call[u].allocatedIdentities :
              /\ call[t].allocatedIdentities[ps] = call[u].allocatedIdentities[ps]
              /\ ps \in call[t].reportedNew
              /\ ps \notin call[u].reportedNew
              /\ call[u].sinkGiven

\* C10: when a successful AllocateCIDRs without a sink returns, it has upserted,
\* tagged Generated and under the identity's number, exactly the prefixes whose
\* allocation the allocator reported as new in this call, and no other prefix.
C10_UpsertsExactlyNew ==
    \A t \in Callers :
        (~call[t].sinkGiven /\ pc[t] \in HolderPCs) =>
            /\ {e[1] : e \in call[t].upserted} \subseteq call[t].reportedNew
            /\ pc[t] = "holding" =>
                  call[t].upserted =
                      {<<ps, [ID |-> call[t].allocatedIdentities[ps].ID,
                              Source |-> SourceGenerated]>> : ps \in call[t].reportedNew}

C10_Witness ==
    \E t \in Callers :
        /\ pc[t] = "holding"
        /\ ~call[t].sinkGiven
        /\ call[t].reportedNew /= {}
        /\ DOMAIN call[t].allocatedIdentities \ call[t].reportedNew /= {}

\* a step of caller t
StepOf(t) == pc'[t] /= pc[t] \/ call'[t] /= call[t]

\* the sink of a call that has returned holds the pairs reported as new, and
\* the call has written nothing to the cache
SinkHoldsNew ==
    \A t \in Callers :
        (call[t].sinkGiven /\ pc[t] = "returned") =>
            /\ DOMAIN call[t].newlyAllocatedIdentities = call[t].reportedNew
            /\ \A ps \in call[t].reportedNew :
                  call[t].newlyAllocatedIdentities[ps] = call[t].allocatedIdentities[ps]
            /\ call[t].upserted = {}

\* a step of AllocateCIDRs with a sink leaves the cache alone and leads to the
\* return, never to an upsert
SinkCallKeepsCache ==
    \A t \in Callers :
        (/\ call[t].sinkGiven
         /\ pc[t] \in {"lock", "loop", "rolledback", "unlocked", "errunlocked"}
         /\ StepOf(t)) =>
            /\ cache' = cache
            /\ pc'[t] \in {"loop", "rolledback", "unlocked", "errunlocked", "failed",
                           "returned"}

\* C11: a successful AllocateCIDRs with a sink puts into the sink exactly the
\* prefix-to-identity pairs the allocator reported as new in this call, and no
\* step of the call changes the cache.
C11_SinkGetsExactlyNew == []SinkHoldsNew /\ [][SinkCallKeepsCache]_vars

C11_Witness ==
    \E t \in Callers :
        /\ call[t].sinkGiven
        /\ pc[t] = "returned"
        /\ call[t].reportedNew /= {}
        /\ DOMAIN call[t].allocatedIdentities \ call[t].reportedNew /= {}
        /\ DOMAIN cache = DOMAIN call[t].allocatedIdentities \ call[t].reportedNew

\* the positions of a call whose AllocateCIDRs has returned without error
ReturnedPCs == {"returned", "holding"}

\* C12: the sequence a successful AllocateCIDRs returns holds one identity per
\* distinct non-nil prefix of the input, the one allocated for that prefix, and
\* nothing else, with or without a sink.
C12_OneIdentityPerPrefix ==
    \A t \in Callers :
        pc[t] \in ReturnedPCs =>
            /\ Len(call[t].identities) = Cardinality(NonNil(call[t].prefixes))
            /\ \A p \in NonNil(call[t].prefixes) :
                  /\ String(p) \in DOMAIN call[t].allocatedIdentities
                  /\ Cardinality({k \in 1..Len(call[t].identities) :
                         call[t].identities[k] = call[t].allocatedIdentities[String(p)]}) = 1
                  /\ call[t].allocatedIdentities[String(p)].CIDRLabel = CIDRLabelStr(String(p))

C12_Witness ==
    \E t, u \in Callers :
        /\ pc[t] = "holding" /\ ~call[t].sinkGiven
        /\ pc[u] = "returned" /\ call[u].sinkGiven
        /\ Len(call[t].prefixes) = 2 /\ call[t].prefixes[1] = call[t].prefixes[2]
        /\ Len(call[t].identities) = 1
        /\ Len(call[u].prefixes) = 2 /\ Len(call[u].identities) = 2

AllNil(prefixes) == \A k \in 1..Len(prefixes) : prefixes[k] = Nil

\* a skipped nil entry makes no allocator call and records nothing
NilEntrySkipped ==
    \A t \in Callers :
        (/\ pc[t] = "loop"
         /\ call[t].i <= Len(call[t].prefixes)
         /\ call[t].prefixes[call[t].i] = Nil
         /\ StepOf(t))
        =>
        /\ idRef' = idRef /\ idNum' = idNum /\ cache' = cache
        /\ call'[t].usedIdentities = call[t].usedIdentities
        /\ call'[t].allocatedIdentities = call[t].allocatedIdentities
        /\ pc'[t] = "loop"

\* a batch of nil entries only changes nothing and returns no identity
AllNilBatchNoEffect ==
    \A t \in Callers :
        AllNil(call[t].prefixes) =>
            /\ pc[t] = "loop" => idRef = call[t].baseRef /\ cache = call[t].baseCache
            /\ pc[t] \notin {"rolledback", "errunlocked"}
            /\ pc[t] \in ReturnedPCs =>
                  /\ call[t].identities = <<>>
                  /\ ~call[t].err
                  /\ call[t].upserted = {}
                  /\ DOMAIN call[t].newlyAllocatedIdentities = {}

\* C14: a nil entry of the prefix sequence is skipped without error and
\* without allocator call; a batch of nil entries only returns an empty
\* identity sequence and no error, with reference counts and cache unchanged.
C14_NilEntriesSkipped == []AllNilBatchNoEffect /\ [][NilEntrySkipped]_vars

C14_Witness ==
    \E t, u \in Callers :
        /\ pc[t] = "holding"
        /\ Len(call[t].prefixes) = 2 /\ AllNil(call[t].prefixes)
        /\ pc[u] \in ReturnedPCs
        /\ Len(call[u].prefixes) = 2
        /\ call[u].prefixes[1] = Nil /\ call[u].prefixes[2] /= Nil
        /\ Len(call[u].identities) = 1

\* when an allocation makes a new identity for a prefix that came with a
\* previous numeric identity, the identity has that number if it was free and
\* another, free one if it was not
HintHonoured ==
    \A t \in Callers :
        AllocatesNow(t) =>
            LET c == call[t]
                p == c.prefixes[c.i]
                h == IF Len(c.oldNIDs) >= c.i THEN c.oldNIDs[c.i] ELSE InvalidIdentity
                id == call'[t].allocatedIdentities[String(p)]
            IN (idRef[DeriveLabels(p)] = 0 /\ h /= InvalidIdentity) =>
                  /\ h \in FreeNIDs => id.ID = h
                  /\ h \notin FreeNIDs => id.ID /= h /\ id.ID \in FreeNIDs

\* whatever the previous numeric identities are, the allocation of the next
\* prefix can succeed, and a call that has returned reports no error
HintNeverFails ==
    \A t \in Callers :
        /\ (pc[t] = "loop" /\ call[t].i <= Len(call[t].prefixes)
               /\ call[t].prefixes[call[t].i] /= Nil) => ENABLED LoopAllocate(t)
        /\ pc[t] \in ReturnedPCs => ~call[t].err

\* C13: a new allocation for a prefix given with a previous numeric identity
\* gets that number when it is free; when it is taken the allocation succeeds
\* with another number and the call returns no error.
C13_PreviousIDReused == []HintNeverFails /\ [][HintHonoured]_vars

C13_Witness ==
    \E t, u \in Callers, h \in HintNIDs :
        /\ t /= u /\ h /= Min(NIDs)
        /\ pc[t] = "holding"
        /\ Len(call[t].identities) = 1 /\ call[t].identities[1].ID = h
        /\ pc[u] = "loop"
        /\ Len(call[u].prefixes) = 2 /\ call[u].prefixes[1] = Nil
        /\ call[u].oldNIDs = <<InvalidIdentity, h>>
        /\ call[u].i = 3
        /\ call[u].prefixes[2] /= Nil
        /\ call[u].allocatedIdentities[String(call[u].prefixes[2])].ID \notin {InvalidIdentity, h}
        /\ String(call[u].prefixes[2]) \in call[u].reportedNew

\* the positions at which AllocateCIDRs holds both locks
LockedPCs == {"loop", "rolledback"}

\* the positions between the ipc.Unlock() and the ipc.metadata.RUnlock() of
\* AllocateCIDRs, on the success path and on the error path
HalfUnlockedPCs == {"unlocked", "errunlocked"}

\* the positions at which AllocateCIDRs holds the metadata read lock
RLockedPCs == {"lock"} \cup LockedPCs \cup HalfUnlockedPCs

\* the positions inside an AllocateCIDRs or UpsertGeneratedIdentities call
InCallPCs ==
    {"lock", "loop", "rolledback", "unlocked", "errunlocked", "upsertNew", "scan",
     "recover", "recoverUpsert"}

\* the main lock is held only by a caller that holds the metadata read lock
\* and took it first, and a caller holds the read lock from its RLock to its
\* RUnlock only
LockOrder ==
    \A t \in Callers :
        /\ pc[t] = "lock" => t \in metaReaders /\ mainLock /= t
        /\ mainLock = t => t \in metaReaders /\ pc[t] \in LockedPCs
        /\ t \in metaReaders <=> pc[t] \in RLockedPCs

\* no step takes the metadata lock for a holder of the main lock
NoReverseOrder ==
    /\ \A t \in Callers :
          (t \notin metaReaders /\ t \in metaReaders') =>
              mainLock /= t /\ mainLock' /= t
    /\ metaReaders' \subseteq Callers

\* every call, and every release transaction, that has begun comes to its end
EveryCallCompletes ==
    /\ \A t \in Callers : (pc[t] \in InCallPCs) ~> (pc[t] \notin InCallPCs)
    /\ (wpc /= "idle") ~> (wpc = "idle")

\* C15: AllocateCIDRs takes the metadata read lock before the main lock and no
\* operation takes them in the opposite order; concurrent calls do not
\* deadlock, and with fair scheduling every call completes.
C15_LockOrderNoDeadlock ==
    /\ []LockOrder
    /\ [][NoReverseOrder]_vars
    /\ EveryCallCompletes

C15_Witness ==
    \E t, u \in Callers :
        /\ t /= u
        /\ pc[t] = "loop" /\ mainLock = t
        /\ pc[u] = "lock"
        /\ metaReaders = {t, u}
        /\ call[t].usedIdentities /= <<>>

\* while a caller upserts, and after every return, it holds neither lock
NoLockOutsideLoop ==
    \A t \in Callers :
        /\ pc[t] \in LockedPCs => mainLock = t /\ t \in metaReaders
        /\ pc[t] \notin LockedPCs => mainLock /= t
        /\ pc[t] \in HalfUnlockedPCs => t \in metaReaders
        /\ pc[t] \notin RLockedPCs => t \notin metaReaders

\* the locks of a call are released when it leaves the loop, on either path:
\* first the main lock, in the next step of the call the metadata read lock,
\* and by no other step
UnlockedOnReturn ==
    \A t \in Callers :
        /\ (pc[t] \in LockedPCs /\ pc'[t] \notin LockedPCs) =>
              /\ mainLock = t /\ mainLock' = NoHolder
              /\ metaReaders' = metaReaders
              /\ pc'[t] \in HalfUnlockedPCs
        /\ (pc[t] \in HalfUnlockedPCs /\ StepOf(t)) =>
              /\ t \in metaReaders /\ metaReaders' = metaReaders \ {t}
              /\ mainLock' = mainLock
              /\ pc'[t] \in {"failed", "returned", "upsertNew", "holding"}
        /\ (mainLock = t /\ mainLock' /= t) =>
              pc[t] \in LockedPCs /\ pc'[t] \in HalfUnlockedPCs
        /\ (t \in metaReaders /\ t \notin metaReaders') =>
              pc[t] \in HalfUnlockedPCs /\ pc'[t] \notin RLockedPCs

\* C16: AllocateCIDRs holds neither the metadata lock nor the main lock while
\* it upserts, and on the success and on the failure return path both locks
\* are released, once.
C16_NoLockDuringUpsert == []NoLockOutsideLoop /\ [][UnlockedOnReturn]_vars

C16_Witness ==
    \E t, u \in Callers :
        /\ pc[t] = "upsertNew" /\ ~call[t].sinkGiven
        /\ Cardinality(call[t].newTodo) = 1
        /\ call[t].upserted /= {}
        /\ pc[u] = "failed"
        /\ mainLock = NoHolder
        /\ metaReaders = {}

\* the scan of the used list takes every CIDR identity whose prefix has no
\* cache entry, under its prefix
ScanTakesMissing ==
    \A t \in Callers :
        (pc[t] = "scan" /\ StepOf(t)) =>
            \A k \in 1..Len(call[t].usedList) :
                LET id == call[t].usedList[k]
                    prefix == TrimPrefix(id.CIDRLabel, LabelSourceCIDR \o ":")
                IN (HasPrefix(id.CIDRLabel, LabelSourceCIDR) /\ prefix \notin DOMAIN cache) =>
                      /\ prefix \in DOMAIN call'[t].toUpsert
                      /\ call'[t].toUpsert[prefix].CIDRLabel = id.CIDRLabel

\* a recovery takes one prefix taken by the scan and counts one for it; the
\* cache is not written by this step
RecoverCountsOne ==
    \A t \in Callers :
        (pc[t] = "recover" /\ StepOf(t)) =>
            /\ call'[t].recovering \in DOMAIN call[t].toUpsert
            /\ call'[t].toUpsert = call[t].toUpsert
            /\ recoverCount' = recoverCount + 1
            /\ cache' = cache
            /\ pc'[t] = "recoverUpsert"

\* the recovery then writes the entry of the prefix counted, Generated and
\* with the number of the identity, and does not count again
RecoverRestoresOne ==
    \A t \in Callers :
        (pc[t] = "recoverUpsert" /\ StepOf(t)) =>
            LET prefix == call[t].recovering
            IN /\ prefix \in DOMAIN call[t].toUpsert
               /\ DOMAIN call'[t].toUpsert = DOMAIN call[t].toUpsert \ {prefix}
               /\ prefix \in DOMAIN cache'
               /\ cache'[prefix] = [ID |-> call[t].toUpsert[prefix].ID,
                                    Source |-> SourceGenerated]
               /\ recoverCount' = recoverCount

\* every prefix found missing is recovered by the call once
RecoveredOncePerPrefix ==
    \A t \in Callers :
        /\ pc[t] \in {"recover", "recoverUpsert"} =>
              /\ DOMAIN call[t].toUpsert \subseteq call[t].missing
              /\ call[t].recoveries + Cardinality(DOMAIN call[t].toUpsert)
                    = Cardinality(call[t].missing)
        /\ pc[t] = "recoverUpsert" => call[t].recovering \in DOMAIN call[t].toUpsert
        /\ pc[t] = "holding" => call[t].recoveries = Cardinality(call[t].missing)

\* C17: UpsertGeneratedIdentities restores the missing cache entry of a held
\* identity of the used list, Generated and with the identity's number, and
\* increments the recovery counter once for the prefix, however often the
\* identity occurs in the used list.
C17_RecoversMissingOnce ==
    /\ []RecoveredOncePerPrefix
    /\ [][ScanTakesMissing /\ RecoverCountsOne /\ RecoverRestoresOne]_vars

C17_Witness ==
    \E t \in Callers :
        /\ pc[t] = "recover"
        /\ Cardinality(call[t].missing) = 2
        /\ call[t].recoveries = 1
        /\ recoverCount = 1
        /\ Len(call[t].usedList) = 2 * Len(call[t].identities)
        /\ \E ps \in call[t].missing \ DOMAIN call[t].toUpsert :
              /\ ps \in DOMAIN cache
              /\ cache[ps] = GeneratedEntry(call[t].allocatedIdentities[ps])

\* a step of UpsertGeneratedIdentities keeps every prefix the cache has
UpsertOnlyWidens ==
    \A t \in Callers :
        (pc[t] \in {"upsertNew", "scan", "recover", "recoverUpsert"} /\ StepOf(t)) =>
            DOMAIN cache \subseteq DOMAIN cache'

\* C18: no step of UpsertGeneratedIdentities removes a cache entry: the
\* prefixes present after the step include those present before it.
C18_UpsertNeverDeletes == [][UpsertOnlyWidens]_vars

C18_Witness ==
    \E t, u \in Callers :
        /\ t /= u
        /\ pc[t] = "holding" /\ pc[u] = "holding"
        /\ call[t].upserted /= {} /\ call[u].upserted /= {}
        /\ {e[1] : e \in call[t].upserted} = {e[1] : e \in call[u].upserted}
        /\ call[u].recoveries = 0 /\ call[t].recoveries = 0
        /\ \A e \in call[u].upserted : e[1] \in DOMAIN cache

\* the used list is left alone where the cache has the entry: the scan does
\* not take the identity, a recovery touches no entry but its own prefix, and
\* the counter moves only with a recovery
PresentEntryKept ==
    \A t \in Callers :
        /\ (pc[t] = "scan" /\ StepOf(t)) =>
              /\ \A k \in 1..Len(call[t].usedList) :
                    LET prefix == TrimPrefix(call[t].usedList[k].CIDRLabel,
                                             LabelSourceCIDR \o ":")
                    IN prefix \in DOMAIN cache => prefix \notin DOMAIN call'[t].toUpsert
              /\ cache' = cache
              /\ recoverCount' = recoverCount
        /\ (pc[t] = "recover" /\ StepOf(t)) =>
              /\ cache' = cache
              /\ call'[t].recovering \in call[t].missing
        /\ (pc[t] = "recoverUpsert" /\ StepOf(t)) =>
              /\ \A ps \in DOMAIN cache \ call[t].missing :
                    ps \in DOMAIN cache' /\ cache'[ps] = cache[ps]
              /\ recoverCount' = recoverCount
        /\ (pc[t] = "upsertNew" /\ StepOf(t)) => recoverCount' = recoverCount
        /\ (pc[t] = "upsertNew" /\ StepOf(t) /\ call[t].usedList = <<>>) =>
              pc'[t] \in {"upsertNew", "holding"}

\* C19: for an identity of the used list whose prefix has a cache entry,
\* UpsertGeneratedIdentities does nothing: no overwrite, no increment of the
\* recovery counter; with an empty used list the counter is never incremented.
C19_PresentEntryUntouched ==
    /\ [][PresentEntryKept]_vars
    /\ [](\A t \in Callers :
            pc[t] \in {"scan", "recover", "recoverUpsert"} => call[t].usedList /= <<>>)

C19_Witness ==
    \E t \in Callers :
        /\ pc[t] = "recover"
        /\ call[t].recoveries = 0
        /\ Cardinality(NonNil(call[t].prefixes)) = 2
        /\ Cardinality(call[t].missing) = 1
        /\ \E ps \in DOMAIN call[t].allocatedIdentities \ call[t].missing :
              ps \in DOMAIN cache /\ ps \notin DOMAIN call[t].toUpsert

\* the identity a numeric identity resolves to has no CIDR label
NoCIDRLabel(nid) ==
    /\ \E l \in AllLabelSets : idRef[l] > 0 /\ idNum[l] = nid
    /\ \A l \in AllLabelSets :
          (idRef[l] > 0 /\ idNum[l] = nid) =>
              ~\E x \in l : HasPrefix(x, LabelSourceCIDR)

\* the elements of a sequence
Range(q) == {q[k] : k \in 1..Len(q)}

\* a numeric identity without CIDR label adds nothing to the prefixes to
\* enqueue and the loop goes on; the enqueue adds the resolved prefixes, and
\* nothing else, to the pending ones
NonCIDRIdentitySkipped ==
    \A t \in Callers :
        /\ (/\ pc[t] = "resolve" /\ StepOf(t)
             /\ call[t].i <= Len(call[t].ids)
             /\ NoCIDRLabel(call[t].ids[call[t].i]))
            =>
            /\ call'[t].resolved = call[t].resolved
            /\ call'[t].i = call[t].i + 1 /\ pc'[t] = "resolve"
            /\ queue' = queue /\ cache' = cache /\ idRef' = idRef
        /\ (/\ pc[t] = "resolve" /\ StepOf(t)
             /\ call[t].i <= Len(call[t].ids)
             /\ ~NoCIDRLabel(call[t].ids[call[t].i])
             /\ \E l \in LabelSets : idRef[l] > 0 /\ idNum[l] = call[t].ids[call[t].i])
            =>
            \E l \in LabelSets :
                /\ idNum[l] = call[t].ids[call[t].i]
                /\ \E p \in Nets :
                      /\ CIDRLabelStr(String(p)) \in l
                      /\ call'[t].resolved = Append(call[t].resolved, String(p))
        /\ (pc[t] = "resolve" /\ pc'[t] = "released") =>
              Range(queue') = Range(queue) \cup Range(call[t].resolved)

\* the identity without CIDR label keeps its reference, and only prefixes are
\* pending or in a release transaction
OnlyPrefixesPending ==
    /\ idRef[ForeignLabels] = 1
    /\ idNum[ForeignLabels] = ForeignNID
    /\ Range(queue) \cup Range(batch) \cup Range(toDelete) \subseteq PrefixStrings
    /\ \A t \in Callers : Range(call[t].resolved) \subseteq PrefixStrings

\* C20: ReleaseCIDRIdentitiesByID enqueues nothing for a numeric identity
\* whose identity has no CIDR label, so that neither the cache nor the
\* reference count of that identity changes, and it resolves and enqueues the
\* other identities of the call.
C20_NonCIDRIdentityNotReleased ==
    []OnlyPrefixesPending /\ [][NonCIDRIdentitySkipped]_vars

C20_Witness ==
    \E t \in Callers :
        /\ pc[t] = "resolve"
        /\ Len(call[t].ids) = 3
        /\ call[t].ids[1] = ForeignNID
        /\ call[t].i = 4
        /\ Len(call[t].resolved) = 2
        /\ Range(call[t].resolved) \subseteq DOMAIN cache

\* ---- C21
\* the entries of a used list that carry a CIDR label
CIDREntries(usedList) ==
    {k \in 1..Len(usedList) : HasPrefix(usedList[k].CIDRLabel, LabelSourceCIDR)}

\* the scan of a used list takes no identity without CIDR label and passes
\* over none of the others: each of those is taken or has its cache entry
NonCIDRSkippedByScan ==
    \A t \in Callers :
        (pc[t] = "scan" /\ StepOf(t)) =>
            LET used == call[t].usedList
                taken == call'[t].toUpsert
            IN /\ \A ps \in DOMAIN taken :
                     \E k \in CIDREntries(used) :
                        /\ used[k].CIDRLabel = CIDRLabelStr(ps)
                        /\ taken[ps] = used[k]
               /\ \A k \in CIDREntries(used) :
                     \E ps \in DOMAIN taken \cup DOMAIN cache :
                        used[k].CIDRLabel = CIDRLabelStr(ps)

\* the number of prefixes caller t has counted: those it has recovered and
\* the one it has counted and is about to upsert
Counted(t) == call[t].recoveries + (IF pc[t] = "recoverUpsert" THEN 1 ELSE 0)

\* the number of prefixes the calls have counted, all callers together
TotalRecoveries ==
    Cardinality({<<t, k>> \in Callers \X (1..Cardinality(PrefixStrings)) :
                    k <= Counted(t)})

\* the cache has an entry only under a prefix and never for the identity
\* without CIDR label, and the counter has counted the recovered prefixes only
NonCIDRLeavesNoTrace ==
    /\ DOMAIN cache \subseteq PrefixStrings
    /\ \A ps \in DOMAIN cache : cache[ps].ID /= ForeignNID
    /\ recoverCount = TotalRecoveries
    /\ \A t \in Callers :
          /\ call[t].missing \subseteq PrefixStrings
          /\ Counted(t) <= Cardinality(call[t].missing)
          /\ (pc[t] = "holding" => call[t].recoveries = Cardinality(call[t].missing))

\* C21: an identity without a parseable CIDR label in the used list of
\* UpsertGeneratedIdentities is skipped: it gets no cache entry and no
\* increment of the recovery counter, and every other identity of the list is
\* still processed.
C21_NonCIDRIdentitySkipped ==
    []NonCIDRLeavesNoTrace /\ [][NonCIDRSkippedByScan]_vars

C21_Witness ==
    \E t \in Callers :
        /\ pc[t] = "recover"
        /\ Len(call[t].usedList) = 3
        /\ call[t].usedList[1] = ForeignIdentity
        /\ call[t].recoveries = 1
        /\ recoverCount = 1
        /\ Cardinality(call[t].missing) = 2
        /\ \E ps \in call[t].missing : ps \in DOMAIN cache

\* ---- C22
\* the release loop is at an entry that does not parse as a network, or whose
\* identity the allocator does not find under the CIDR labels
AtSkippedEntry ==
    /\ wpc = "release"
    /\ widx <= Len(batch)
    /\ \/ batch[widx] \notin AllPrefixStrings
       \/ \E p \in AllNets : String(p) = batch[widx] /\ idRef[GetCIDRLabels(p)] = 0

\* the worker has moved on in its transaction
WorkerMoved == wpc' /= wpc \/ widx' /= widx

\* the iteration of a skipped entry changes neither the allocator, nor the
\* cache, nor the prefixes to delete, and goes on with the next entry
SkippedEntryNoEffect ==
    (AtSkippedEntry /\ WorkerMoved) =>
        /\ idRef' = idRef
        /\ idNum' = idNum
        /\ cache' = cache
        /\ toDelete' = toDelete
        /\ lastRef' = lastRef
        /\ batch' = batch
        /\ IF widx < Len(batch)
           THEN wpc' = "release" /\ widx' = widx + 1
           ELSE wpc' = "delete" /\ widx' = 1

\* only a prefix whose identity was released is deleted from the cache
OnlyReleasedDeleted ==
    \A k \in 1..Len(toDelete) : toDelete[k] \in lastRef \cap AllPrefixStrings

\* C22: in a release batch an entry that does not parse as a network, or
\* whose identity the allocator does not find, causes no Release and no cache
\* delete, and the other prefixes of the batch are processed as without it.
C22_BadEntrySkipped ==
    []OnlyReleasedDeleted /\ [][SkippedEntryNoEffect]_vars

C22_Witness ==
    /\ wpc = "delete"
    /\ Len(batch) = 3
    /\ batch[1] = "<nil>"
    /\ batch[2] \in PrefixStrings \ lastRef
    /\ batch[2] \notin relErr
    /\ \E l \in LabelSets : CIDRLabelStr(batch[2]) \in l /\ idRef[l] > 0
    /\ toDelete = <<batch[3]>>
    /\ idRef = [l \in AllLabelSets |->
                  IF l = ForeignLabels \/ CIDRLabelStr(batch[2]) \in l THEN idRef[l] ELSE 0]

\* ---- C23
\* this step is an iteration of the release loop in which Release returned
\* an error
ReleaseFailedNow ==
    /\ wpc = "release"
    /\ widx <= Len(batch)
    /\ relErr' /= relErr
    /\ relErr' = relErr \cup {batch[widx]}

\* the labels the identity of a pending prefix is released under
LabelsOfPending(ps) == GetCIDRLabels(CHOOSE p \in AllNets : String(p) = ps)

\* after an error of Release the loop goes on with the next prefix, and the
\* failing prefix is put on the delete list exactly when its last reference
\* was dropped all the same
FailedReleaseGoesOn ==
    ReleaseFailedNow =>
        LET ps == batch[widx]
            dropped == idRef[LabelsOfPending(ps)] = 1 /\ idRef'[LabelsOfPending(ps)] = 0
        IN /\ batch' = batch
           /\ IF widx < Len(batch)
              THEN wpc' = "release" /\ widx' = widx + 1
              ELSE wpc' = "delete" /\ widx' = 1
           /\ toDelete' = IF dropped THEN Append(toDelete, ps) ELSE toDelete
           /\ (ps \in lastRef') = dropped
           /\ cache' = cache

\* the cache entry of a prefix whose Release failed goes away only when the
\* allocator reported its last reference as released
FailedDeletedOnlyIfReleased ==
    \A ps \in relErr :
        (ps \in DOMAIN cache /\ ps \notin DOMAIN cache') => ps \in lastRef

\* C23: an error of the allocator's Release for one prefix does not abort the
\* release batch: the remaining prefixes are still released, and the cache
\* entry of the failing prefix is deleted only if the allocator reported the
\* last reference as released all the same.
C23_ReleaseErrorNotFatal ==
    [][FailedReleaseGoesOn /\ FailedDeletedOnlyIfReleased]_vars

C23_Witness ==
    /\ wpc = "delete"
    /\ widx > Len(toDelete)
    /\ Len(batch) = 2
    /\ batch[1] \in relErr \ lastRef
    /\ batch[2] \in lastRef \ relErr
    /\ toDelete = <<batch[2]>>
    /\ batch[1] \in DOMAIN cache
    /\ batch[2] \notin DOMAIN cache

\* ---- C24
\* no prefix is pending twice, and none occurs twice in a release transaction
PendingOnce ==
    /\ \A j, k \in 1..Len(queue) : queue[j] = queue[k] => j = k
    /\ \A j, k \in 1..Len(batch) : batch[j] = batch[k] => j = k

\* an iteration of the release loop calls Release for the prefix of its
\* index only: no other reference count changes
ReleasesOwnEntryOnly ==
    (wpc = "release" /\ WorkerMoved) =>
        \A l \in LabelSets :
            idRef'[l] /= idRef[l] =>
                /\ batch[widx] \in AllPrefixStrings
                /\ l = LabelsOfPending(batch[widx])
                /\ idRef'[l] = idRef[l] - 1

\* the callers that have released their references and wait for the worker
Releasers == {t \in Callers : pc[t] = "released"}

\* C24: enqueue calls made between two drains are coalesced: a prefix that
\* several calls enqueued is passed to the allocator's Release at most once
\* in the drain cycle that processes them.
C24_EnqueuesCoalesced ==
    []PendingOnce /\ [][ReleasesOwnEntryOnly]_vars

C24_Witness ==
    /\ wpc = "delete"
    /\ Cardinality(Releasers) = 2
    /\ \A t \in Releasers : call[t].prefixes = <<Min(Nets)>>
    /\ batch = <<String(Min(Nets))>>
    /\ queue = <<>>
    /\ relErr = {}
    /\ idRef[GetCIDRLabels(Min(Nets))] = 1

\* ---- C25
\* the positions of a caller inside, or about to enter, a release call
ReleasingPCs == {"holding", "resolve"}

\* q extended at its end by more entries
Extends(q, longer) ==
    Len(q) <= Len(longer) /\ SubSeq(longer, 1, Len(q)) = q

\* a step of ReleaseCIDRIdentitiesByCIDR or ReleaseCIDRIdentitiesByID changes
\* no reference count, no numeric identity, no cache entry, no lock and
\* nothing of the running release transaction: it only adds to the queue
ReleaseCallOnlyEnqueues ==
    \A t \in Callers :
        (pc[t] \in ReleasingPCs /\ StepOf(t)) =>
            /\ idRef' = idRef
            /\ idNum' = idNum
            /\ cache' = cache
            /\ mainLock' = mainLock
            /\ metaReaders' = metaReaders
            /\ <<wpc, batch, widx, toDelete, lastRef>> = <<wpc', batch', widx', toDelete', lastRef'>>
            /\ Extends(queue, queue')

\* a step of one of the two release calls
ReleaseCall(t) ==
    \/ ReleaseCIDRIdentitiesByCIDR(t)
    \/ \E identities \in IDChoices(call[t]) : CallReleaseCIDRIdentitiesByID(t, identities)
    \/ ResolveID(t)
    \/ EnqueueResolved(t)

\* a release call can take its next step whoever holds the main lock
ReleaseCallNeverWaits ==
    \A t \in Callers : pc[t] \in ReleasingPCs => ENABLED ReleaseCall(t)

\* C25: ReleaseCIDRIdentitiesByCIDR and ReleaseCIDRIdentitiesByID only add
\* prefixes to the deferred release queue: the call itself changes no
\* reference count and no cache entry, and it never waits for the main lock.
C25_ReleaseCallsOnlyEnqueue ==
    []ReleaseCallNeverWaits /\ [][ReleaseCallOnlyEnqueues]_vars

C25_Witness ==
    /\ mainLock = Worker
    /\ wpc = "release"
    /\ widx = 1
    /\ queue /= <<>>
    /\ queue /= batch
    /\ \A t \in Callers : pc[t] = "released"
    /\ idRef[LabelsOfPending(queue[1])] > 0
    /\ queue[1] \in DOMAIN cache

\* ---- C26
\* the prefix is pending on the deferred release queue
Pending(ps) == \E k \in 1..Len(queue) : queue[k] = ps

\* the prefix is in the hands of the release transaction
HandedOver(ps) == wpc /= "idle" /\ \E k \in 1..Len(batch) : batch[k] = ps

\* C26: every prefix enqueued on the deferred release queue is eventually
\* handed to the release transaction, when the background worker keeps being
\* scheduled.
C26_PendingEventuallyReleased ==
    \A ps \in PrefixStrings : Pending(ps) ~> HandedOver(ps)

C26_Witness ==
    /\ wpc = "release"
    /\ mainLock = Worker
    /\ Len(batch) = 2
    /\ \A ps \in PrefixStrings : HandedOver(ps)
    /\ queue = <<>>

\* ---- C27
\* the number of references the call of t has taken under the label set
Taken(t, lbls) ==
    Cardinality({k \in 1..Len(call[t].usedIdentities) :
                    call[t].usedIdentities[k].Labels = lbls})

\* the number of references of the batch of t under the label set that the
\* rollback step leaves with the allocator because their Release failed
Kept(t, lbls) ==
    Cardinality({k \in call'[t].releaseErrs : call[t].usedIdentities[k].Labels = lbls})

\* the rollback of a failed batch gives back the references the batch took,
\* one for one but for those whose Release failed, and touches nothing else:
\* not the other reference counts, not the cache, not the other callers
RollbackOnlyOwn ==
    \A t \in Callers :
        (pc[t] = "loop" /\ pc'[t] = "rolledback") =>
            /\ \A l \in AllLabelSets :
                  /\ idRef'[l] = idRef[l] - (Taken(t, l) - Kept(t, l))
                  /\ idRef'[l] >= idRef[l] - Taken(t, l)
            /\ cache' = cache
            /\ \A u \in Callers \ {t} : pc'[u] = pc[u] /\ call'[u] = call[u]
            /\ \A u \in Callers \ {t} :
                  \A l \in AllLabelSets :
                      (pc[u] \in HolderPCs /\ idRef[l] >= Taken(t, l) + Taken(u, l))
                          => idRef'[l] >= Taken(u, l)

\* the failed call gives both locks back, the main lock first, so that a
\* concurrent batch that waits for the main lock can take it
FailureFreesLocks ==
    \A t \in Callers :
        /\ (pc[t] = "rolledback" /\ StepOf(t)) =>
              /\ mainLock' = NoHolder
              /\ pc'[t] = "errunlocked"
              /\ \A u \in Callers \ {t} :
                    pc[u] = "lock" => pc'[u] = "lock" /\ call'[u] = call[u]
        /\ (pc[t] = "errunlocked" /\ StepOf(t)) =>
              /\ t \notin metaReaders'
              /\ mainLock' = mainLock
              /\ pc'[t] = "failed"

\* a caller that waits for the main lock gets it once it is free
WaitingBatchCanGoOn ==
    \A u \in Callers : (pc[u] = "lock" /\ mainLock = NoHolder) => ENABLED Lock(u)

\* C27: a failed allocation in one AllocateCIDRs batch rolls back only that
\* batch: the references of other callers, a concurrent batch on the same or
\* on other prefixes included, are not released, and those callers are not
\* kept from completing.
C27_RollbackOnlyOwnBatch ==
    []WaitingBatchCanGoOn /\ [][RollbackOnlyOwn /\ FailureFreesLocks]_vars

C27_Witness ==
    \E t, u \in Callers :
        /\ t /= u
        /\ pc[t] = "rolledback"
        /\ pc[u] \in HolderPCs
        /\ \E l \in LabelSets :
              /\ Taken(t, l) = 1
              /\ Taken(u, l) = 1
              /\ idRef[l] = 1
        /\ call[t].i = 2
        /\ DOMAIN call[u].allocatedIdentities \subseteq DOMAIN cache

\* ---- C28
\* the prefix string of the host-length network of the address a
HostString(a) == "10.0." \o ToString(a) \o ".0/32"

\* a call of AllocateCIDRsForIPs starts as the call of AllocateCIDRs does
\* that is given the host-length network of each address, no previous
\* identities and the same sink
EntersAsHostNetworks ==
    \A t \in Callers :
        (pc[t] \in {"idle", "failed", "released"} /\ pc'[t] = "lock") =>
            /\ \E ips \in IPBatches, sinkGiven \in BOOLEAN :
                  call'[t] = [NoCall EXCEPT
                                !.prefixes = [k \in 1..Len(ips) |-> NumPrefixes + ips[k]],
                                !.oldNIDs = <<>>,
                                !.sinkGiven = sinkGiven,
                                !.upsert = ~sinkGiven]
            /\ metaReaders' = metaReaders \cup {t}
            /\ <<idRef, idNum, cache, mainLock>> = <<idRef', idNum', cache', mainLock'>>

\* the prefix strings of the networks a call was given
StringsOf(prefixes) == {String(prefixes[k]) : k \in 1..Len(prefixes)}

\* allocator, cache, sink and result hold host-length prefixes only, and a
\* call that returned has one identity for the host network of each address
HostLengthEffects ==
    /\ DOMAIN cache \subseteq {HostString(a) : a \in IPs}
    /\ \A l \in LabelSets :
          idRef[l] > 0 => \E a \in IPs : CIDRLabelStr(HostString(a)) \in l
    /\ \A t \in Callers :
          /\ StringsOf(call[t].prefixes) \subseteq {HostString(a) : a \in IPs}
          /\ DOMAIN call[t].newlyAllocatedIdentities \subseteq {HostString(a) : a \in IPs}
          /\ DOMAIN call[t].allocatedIdentities \subseteq StringsOf(call[t].prefixes)
          /\ \A ps \in DOMAIN call[t].allocatedIdentities :
                call[t].allocatedIdentities[ps].CIDRLabel = CIDRLabelStr(ps)
          /\ pc[t] \in ReturnedPCs =>
                /\ DOMAIN call[t].allocatedIdentities = StringsOf(call[t].prefixes)
                /\ Len(call[t].identities) = Cardinality(StringsOf(call[t].prefixes))
                /\ call[t].sinkGiven =>
                      DOMAIN call[t].newlyAllocatedIdentities = call[t].reportedNew

\* C28: AllocateCIDRsForIPs(ips, sink) has the result and the effects on
\* allocator, cache and sink of AllocateCIDRs called with the host-length
\* network of each address, no previous identities and the same sink.
C28_ForIPsIsHostNetworks ==
    []HostLengthEffects /\ [][EntersAsHostNetworks]_vars

C28_Witness ==
    \E t \in Callers :
        /\ pc[t] = "returned"
        /\ call[t].sinkGiven
        /\ Len(call[t].prefixes) = 2
        /\ DOMAIN call[t].newlyAllocatedIdentities = {HostString(a) : a \in IPs}
        /\ \A a \in IPs :
              idRef[{CIDRLabelStr(HostString(a)), LabelWorld}] = 1
        /\ cache = EmptyMap

\* ---- C29
\* the strings used for the CIDRs of the families
CIDRsOfFamily(v4) == IF v4 THEN {PodCIDRv4, AnnotatedCIDRv4} ELSE {CIDRv6}

\* what the rule of the PodCIDR and the annotations gives a family: the
\* PodCIDR when it is of the family, else the annotation of the family when
\* node annotation is enabled and the node has it, else nothing
RuleOf(v4, name) ==
    LET node == k8s.k8sNode
    IN IF node.PodCIDR \in CIDRsOfFamily(v4) THEN node.PodCIDR
       ELSE IF k8s.AnnotateK8sNode /\ name \in DOMAIN node.Annotations
            THEN node.Annotations[name]
            ELSE NoCIDR

\* the parsed node follows the rule in both families
ParsedFollowsRule ==
    k8s.parsed =>
        /\ k8s.n.IPv4AllocCIDR = RuleOf(TRUE, V4CIDRName)
        /\ k8s.n.IPv6AllocCIDR = RuleOf(FALSE, V6CIDRName)

\* the parsed node has what the tests assert of it
ParsedAsTestsAssert ==
    \A tc \in TestParseNodeCases :
        (k8s.parsed /\ k8s.AnnotateK8sNode = tc.annotate /\ k8s.k8sNode = tc.node) =>
            /\ k8s.n.Name = tc.node.Name
            /\ k8s.n.IPv4AllocCIDR = tc.v4
            /\ k8s.n.IPv6AllocCIDR = tc.v6
            /\ k8s.n.Labels = tc.node.Labels

\* C29: ParseNode takes the allocation CIDR of each address family from the
\* PodCIDR of the node when the PodCIDR is of that family; for the other
\* family it uses the CIDR annotation of that family only when node
\* annotation is enabled, and leaves the CIDR of the family unset otherwise.
C29_PodCIDRBeforeAnnotation ==
    ParsedFollowsRule /\ ParsedAsTestsAssert

C29_Witness ==
    /\ k8s.parsed
    /\ k8s.AnnotateK8sNode
    /\ k8s.k8sNode.PodCIDR = CIDRv6
    /\ V4CIDRName \in DOMAIN k8s.k8sNode.Annotations
    /\ k8s.n.IPv4AllocCIDR = AnnotatedCIDRv4
    /\ k8s.n.IPv6AllocCIDR = CIDRv6
    /\ \E tc \in TestParseNodeCases :
          k8s.AnnotateK8sNode = tc.annotate /\ k8s.k8sNode = tc.node

\* ---- C30
\* C30: when AllocateCIDRs was given a sink and fails, the sink holds no entry
\* that the failed call added (the sinks of the model start empty), so that a
\* later UpsertGeneratedIdentities on it upserts no rolled-back identity
C30_FailedSinkEmpty ==
    \A t \in Callers :
        pc[t] = "failed" /\ call[t].sinkGiven
            => call[t].newlyAllocatedIdentities = EmptyMap

\* ---- C31
\* C31: with AllocateCIDRs calls without a sink running concurrently for the
\* same prefix, a call that has returned successfully finds every prefix it
\* shares with another running call in the cache
C31_ReturnedHasEntry ==
    \A t \in Callers : \A u \in Callers \ {t} :
        /\ pc[t] = "holding" /\ ~call[t].sinkGiven
        /\ pc[u] \in InCallPCs /\ ~call[u].sinkGiven
        => \A p \in NonNil(call[t].prefixes) \cap NonNil(call[u].prefixes) :
              String(p) \in DOMAIN cache

\* ---- C32
\* an iteration of the release loop on the prefix string ps
ReleasesNow(ps) ==
    /\ wpc = "release"
    /\ widx <= Len(batch)
    /\ batch[widx] = ps
    /\ <<widx, wpc>>' /= <<widx, wpc>>

\* the release loop, on a prefix for which AllocateCIDRs holds an identity,
\* finds such an identity and drops one of its references
ReleaseFindsAllocated ==
    \A ps \in PrefixStrings :
        ReleasesNow(ps) /\ IdentitiesOf(ps) /= {}
            => \E l \in IdentitiesOf(ps) : idRef'[l] = idRef[l] - 1

\* C32: also for a prefix whose address has metadata labels, the identity
\* the release transaction looks up and releases is the one AllocateCIDRs
\* allocated for the prefix, so that the release takes one reference of it
\* back
C32_ReleaseFindsAllocated == [][ReleaseFindsAllocated]_vars

\* ---- C33
\* C33: after the first AllocateCIDRs of a run has succeeded and the caller
\* has released once the prefix of each identity it was returned, with no
\* metadata labels registered and the release processed, every reference
\* count is back at its value before the call (zero), also when the input
\* names a prefix more than once
C33_ReleasePerIdentityRestores ==
    \A t \in Callers :
        (/\ ncalls = 1
         /\ metaChanges = 0
         /\ pc[t] = "released"
         /\ queue = <<>>
         /\ wpc = "idle")
        => \A l \in LabelSets : idRef[l] = 0

\* ---- C34
\* C34: when callers that allocated with a sink run UpsertGeneratedIdentities
\* concurrently on used lists that share a prefix missing from the cache (no
\* new map, no release: every cache entry is a restored one), the recovery
\* counter has been incremented once per entry restored or about to be
\* restored, never more
C34_OneRecoveryPerRestoredEntry ==
    /\ recoverCount <= Cardinality(DOMAIN cache)
                          + Cardinality({t \in Callers : pc[t] = "recoverUpsert"})
    /\ (\A t \in Callers : pc[t] \notin {"recover", "recoverUpsert"})
          => recoverCount = Cardinality(DOMAIN cache)

\* ---- C35
\* the prefixes that are both in the new map and, through the CIDR label of
\* an identity, in the used list of the UpsertGeneratedIdentities call of t
InNewAndUsed(t) ==
    {ps \in DOMAIN call[t].newMap :
        \E k \in 1..Len(call[t].usedList) :
            call[t].usedList[k].CIDRLabel = CIDRLabelStr(ps)}

\* C35: an identity that is in the new map and in the used list of one
\* UpsertGeneratedIdentities call is upserted with the new map, is found in
\* the cache by the scan of the used list, and is not recovered or counted
C35_NewAndUsedUpsertedOnce ==
    \A t \in Callers :
        pc[t] \in {"recover", "recoverUpsert"} =>
            \A ps \in InNewAndUsed(t) :
                /\ ps \notin call[t].missing
                /\ ps \notin DOMAIN call[t].toUpsert
                /\ Cardinality({e \in call[t].upserted : e[1] = ps}) = 1

\* ---- C36
\* the numeric identity nid is allocated to an identity that carries the CIDR
\* label of the network p
AllocatedFor(nid, p) ==
    \E l \in LabelSets :
        idRef[l] > 0 /\ idNum[l] = nid /\ CIDRLabelStr(String(p)) \in l

\* no allocated identity has the numeric identity nid
NotAllocated(nid) == ~\E l \in AllLabelSets : idRef[l] > 0 /\ idNum[l] = nid

\* one iteration of ReleaseCIDRIdentitiesByID: a numeric identity that is
\* still allocated for a prefix of the caller adds the string of that prefix,
\* one that is not allocated any more adds nothing
ResolvesToOwnPrefix ==
    \A t \in Callers :
        (pc[t] = "resolve" /\ StepOf(t) /\ call[t].i <= Len(call[t].ids)) =>
            LET nid == call[t].ids[call[t].i]
            IN /\ \A p \in NonNil(call[t].prefixes) :
                     AllocatedFor(nid, p)
                         => call'[t].resolved = Append(call[t].resolved, String(p))
               /\ NotAllocated(nid) => call'[t].resolved = call[t].resolved
               /\ queue' = queue

\* the enqueue at the end of the call adds the resolved prefixes and nothing
\* else
EnqueuesResolvedOnly ==
    \A t \in Callers :
        (pc[t] = "resolve" /\ pc'[t] = "released") =>
            /\ Range(queue') \ Range(queue) \subseteq Range(call[t].resolved)
            /\ Range(call[t].resolved) \subseteq Range(queue')

\* the string resolved from the CIDR label of a returned identity is the
\* cache key AllocateCIDRs used for it
ResolvedIsCacheKey ==
    \A t \in Callers :
        pc[t] \in ReturnedPCs =>
            \A key \in DOMAIN call[t].allocatedIdentities :
                /\ call[t].allocatedIdentities[key].CIDRLabel
                      = LabelSourceCIDR \o ":" \o key
                /\ ~call[t].sinkGiven /\ pc[t] = "holding"
                      /\ key \in DOMAIN call[t].newlyAllocatedIdentities
                      => key \in {e[1] : e \in call[t].upserted}

\* C36: ReleaseCIDRIdentitiesByID enqueues, for a numeric identity that is
\* still allocated to an identity AllocateCIDRs returned for prefix P, exactly
\* the prefix string P, which is the cache key AllocateCIDRs used; a numeric
\* identity that is not allocated any more enqueues nothing
C36_ByIDEnqueuesOwnPrefix ==
    []ResolvedIsCacheKey /\ [][ResolvesToOwnPrefix /\ EnqueuesResolvedOnly]_vars

C36_Witness ==
    \E t \in Callers :
        /\ pc[t] = "resolve"
        /\ Len(call[t].ids) = 2
        /\ ForeignNID \notin Range(call[t].ids)
        /\ call[t].i = 3
        /\ NotAllocated(call[t].ids[1])
        /\ Len(call[t].resolved) = 1
        /\ call[t].resolved[1] \in DOMAIN cache
        /\ \E p \in NonNil(call[t].prefixes) :
              AllocatedFor(call[t].ids[2], p) /\ call[t].resolved[1] = String(p)

\* ---- C37
\* the hint of the entry at index i: the entry of the previous numeric
\* identities at the same index, the invalid sentinel where there is none
HintAt(c) ==
    IF c.i \in 1..Len(c.oldNIDs) THEN c.oldNIDs[c.i] ELSE InvalidIdentity

\* a new identity gets the number at its own index when that is a free
\* number, and the number the allocator picks without a hint otherwise
HintFromSameIndex ==
    \A t \in Callers :
        (AllocatesNow(t) /\ idRef[DeriveLabels(call[t].prefixes[call[t].i])] = 0) =>
            LET c == call[t]
                h == HintAt(c)
                id == call'[t].allocatedIdentities[String(c.prefixes[c.i])]
            IN /\ id.ID = IF h /= InvalidIdentity /\ h \in FreeNIDs
                          THEN h ELSE Min(FreeNIDs)
               /\ call'[t].oldNIDs = c.oldNIDs

\* a nil entry uses up its index: the loop moves on by one and the previous
\* numeric identities stay as they are
NilKeepsIndex ==
    \A t \in Callers :
        (/\ pc[t] = "loop" /\ StepOf(t)
         /\ call[t].i <= Len(call[t].prefixes)
         /\ call[t].prefixes[call[t].i] = Nil)
        => /\ call'[t].i = call[t].i + 1
           /\ call'[t].oldNIDs = call[t].oldNIDs
           /\ idRef' = idRef /\ idNum' = idNum

\* an entry beyond the end of the previous numeric identities, or with none
\* given, can be allocated
ShortHintsNeverFail ==
    \A t \in Callers :
        (/\ pc[t] = "loop"
         /\ call[t].i <= Len(call[t].prefixes)
         /\ call[t].prefixes[call[t].i] /= Nil
         /\ Len(call[t].oldNIDs) < call[t].i)
        => ENABLED LoopAllocate(t)

\* C37: the previous numeric identity of the prefix at index i is the entry
\* at index i of the previous numeric identities, nil prefixes counted; when
\* there is no such entry the invalid sentinel is the hint and the allocation
\* does not fail for that
C37_HintByIndex ==
    []ShortHintsNeverFail /\ [][HintFromSameIndex /\ NilKeepsIndex]_vars

C37_Witness ==
    \E u \in Callers :
        /\ pc[u] = "loop"
        /\ Len(call[u].prefixes) = 2 /\ call[u].prefixes[1] = Nil
        /\ call[u].oldNIDs = <<MaxNID - 1>>
        /\ call[u].i = 3
        /\ MaxNID - 1 \in FreeNIDs
        /\ String(call[u].prefixes[2]) \in call[u].reportedNew
        /\ call[u].allocatedIdentities[String(call[u].prefixes[2])].ID = Min(NIDs)

\* ---- C38
\* the attempts made so far are within the limit, each failed one has been
\* followed by one backoff wait before the next, and the call returns either
\* the node of an attempt without error, made after failed ones only, or no
\* node after the last allowed attempt has failed
WaitBounded ==
    /\ k8s.attempts <= nodeRetrievalMaxRetries
    /\ k8s.pc = "attempt" => k8s.waits = k8s.attempts /\ k8s.retry = k8s.attempts
    /\ k8s.pc = "backoff" =>
          /\ k8s.err /= NoError
          /\ k8s.waits = k8s.attempts - 1
          /\ k8s.retry < nodeRetrievalMaxRetries
    /\ k8s.pc = "done" =>
          \/ /\ k8s.err = NoError
             /\ k8s.attempts >= 1
             /\ k8s.waits = k8s.attempts - 1
             /\ k8s.ret = k8s.n
             /\ k8s.n = retrieveNodeInformation(k8s.cfg, k8s.got).n
          \/ /\ k8s.err /= NoError
             /\ k8s.attempts = nodeRetrievalMaxRetries
             /\ k8s.waits = nodeRetrievalMaxRetries
             /\ k8s.ret = NilNode

\* the call has returned
WaitDone == k8s.pc = "done"

\* C38: waitForNodeInformation makes at most nodeRetrievalMaxRetries attempts,
\* waits a backoff after each failed one, returns the result of the first
\* attempt without error, returns no node when all attempts have failed, and
\* always returns
C38_WaitBoundedAndTerminates == []WaitBounded /\ <>WaitDone

C38_Witness ==
    /\ k8s.pc = "done"
    /\ k8s.attempts = nodeRetrievalMaxRetries
    /\ k8s.waits = nodeRetrievalMaxRetries
    /\ k8s.err = "required IPv6 PodCIDR not available"
    /\ k8s.ret = NilNode

\* ---- C39
\* the outcome of the latest attempt: a node is returned without error and
\* with the allocation CIDR of every required family; a failed fetch gives no
\* node, and no error exactly when no CIDR is required and devices cannot be
\* auto-detected; a fetch that succeeded never gives no node without an error
RetrievedAsRequired ==
    k8s.attempts > 0 =>
        /\ k8s.n /= NilNode =>
              /\ k8s.err = NoError
              /\ ~k8s.got.err
              /\ k8s.cfg.K8sRequireIPv4PodCIDR => k8s.n.IPv4AllocCIDR /= NoCIDR
              /\ k8s.cfg.K8sRequireIPv6PodCIDR => k8s.n.IPv6AllocCIDR /= NoCIDR
        /\ k8s.got.err =>
              /\ k8s.n = NilNode
              /\ k8s.err = NoError <=>
                    (/\ ~k8s.cfg.K8sRequireIPv4PodCIDR
                     /\ ~k8s.cfg.K8sRequireIPv6PodCIDR
                     /\ ~k8s.cfg.MightAutoDetectDevices)
        /\ (~k8s.got.err /\ k8s.n = NilNode) => k8s.err /= NoError

\* C39: retrieveNodeInformation returns a node only if the node has the
\* allocation CIDR of every address family configured as required; when the
\* fetch fails it returns no node, without error exactly when no PodCIDR is
\* required and device auto-detection cannot happen, with an error otherwise
C39_NodeOnlyWithRequiredCIDRs == RetrievedAsRequired

C39_Witness ==
    /\ k8s.attempts = 2
    /\ k8s.pc = "done"
    /\ k8s.cfg.K8sRequireIPv4PodCIDR /\ k8s.cfg.K8sRequireIPv6PodCIDR
    /\ k8s.cfg.IPAM = IPAMKubernetes
    /\ ~k8s.got.err
    /\ k8s.ret.IPv4AllocCIDR = AnnotatedCIDRv4
    /\ k8s.ret.IPv6AllocCIDR = CIDRv6

====
